---- MODULE Spec2Model ----
(***************************************************************************)
(* A model of bibtex_loader.py (class BibTeXLoader): the parse -> sort ->  *)
(* format -> number -> wrap pipeline of the reference loader.              *)
(*                                                                         *)
(* Python strings are TLA+ strings; Len, \o and SubSeq act on them         *)
(* character by character, so splitting, joining, slicing and comparing    *)
(* are computed as the code computes them.  Characters outside ASCII that  *)
(* the source uses in its tables cannot be written in a TLA+ string; each  *)
(* one is stood for by one ASCII character that occurs in no other marker  *)
(* (see BULLET .. DBLBAR), so lengths are those of the source.             *)
(***************************************************************************)
EXTENDS Integers, Sequences, FiniteSets, TLC

VARIABLES
    pc,                 \* "start" before the call under study, "done" after;
                        \* in a run of effect, the stage the run has reached
    options,            \* self.options (the fields the pipeline reads)
    index,              \* get_numbering_marker: its argument
    marker,             \* get_numbering_marker: its result
    entries,            \* sort_entries: its argument
    sorted_entries,     \* sort_entries: its result
    text,               \* wrap_text: its first argument
    max_width_chars,    \* wrap_text: max_width_chars
    first_line_indent,  \* wrap_text: first_line_indent
    subsequent_indent,  \* wrap_text: subsequent_indent
    lines,              \* wrap_text: its result
    entry,              \* format_entry_python: the entry
    formatted,          \* format_entry_python: its outcome
    extension,          \* parse_reference_file: filepath.suffix.lower()
    content,            \* parse_*: the text of the file
    data,               \* parse_json: what json.load returned
    fixture,            \* the records the file was written from
    parsed,             \* parse_reference_file: the entries returned
    messages,           \* inkex.errormsg calls so far
    file_exists,        \* effect: Path(bibfile).exists()
    document,           \* effect: the groups of the drawing, in document order
    formatted_refs,     \* effect: what format_with_python returned
    calls,              \* effect: the backends called so far, in order
    debug_log,          \* inkex.utils.debug calls so far
    uncaught,           \* the exception that ended the run, "" if none
    author_names,       \* the authors the author field was written from
    author_field,       \* format_authors: its argument author_str
    joined,             \* format_authors: its outcome
    document_before     \* effect: the groups of the drawing when the run began

vars == <<pc, options, index, marker, entries, sorted_entries, text,
          max_width_chars, first_line_indent, subsequent_indent, lines,
          entry, formatted, extension, content, data, fixture, parsed, messages,
          file_exists, document, formatted_refs, calls, debug_log, uncaught,
          author_names, author_field, joined, document_before>>

-----------------------------------------------------------------------------
(* Python str and list primitives                                          *)

Char(s, i) == SubSeq(s, i, i)

\* s[a:b] for 0 <= a, with b clipped to len(s) (Python slice semantics)
Slice(s, a, b) == SubSeq(s, a + 1, IF b < Len(s) THEN b ELSE Len(s))

\* s[a:]
SliceFrom(s, a) == SubSeq(s, a + 1, Len(s))

\* the printable ASCII characters in code-point order: 32 (space) to 95, and
\* 97 to 126 (96, the grave accent, cannot be written in a TLA+ string and
\* occurs in no input of the model)
AsciiLow ==
    " !\"#$%&'()*+,-./0123456789:;<=>?@ABCDEFGHIJKLMNOPQRSTUVWXYZ[\\]^_"

AsciiHigh == "abcdefghijklmnopqrstuvwxyz{|}~"

\* ord(c) for the characters the model uses
Ord(c) ==
    IF c = "\t" THEN 9
    ELSE IF c = "\n" THEN 10
    ELSE IF c = "\f" THEN 12
    ELSE IF c = "\r" THEN 13
    ELSE IF \E i \in 1..Len(AsciiLow) : Char(AsciiLow, i) = c
         THEN 31 + (CHOOSE i \in 1..Len(AsciiLow) : Char(AsciiLow, i) = c)
    ELSE 96 + (CHOOSE i \in 1..Len(AsciiHigh) : Char(AsciiHigh, i) = c)

\* chr(n) for 32 <= n <= 126, n # 96
Chr(n) == IF n <= 95 THEN Char(AsciiLow, n - 31) ELSE Char(AsciiHigh, n - 96)

\* c.isspace()
IsSpace(c) == c \in {" ", "\t", "\n", "\r", "\f"}

\* str.lower() of one character
LowerChar(c) ==
    IF Ord(c) >= 65 /\ Ord(c) <= 90 THEN Chr(Ord(c) + 32) ELSE c

\* s.lower(), by halves
RECURSIVE Lower(_)
Lower(s) ==
    IF s = "" THEN ""
    ELSE IF Len(s) = 1 THEN LowerChar(s)
    ELSE Lower(SubSeq(s, 1, Len(s) \div 2)) \o Lower(SubSeq(s, (Len(s) \div 2) + 1, Len(s)))

\* a < b on Python strings: lexicographic by code point
RECURSIVE StrLess(_, _)
StrLess(a, b) ==
    IF b = "" THEN FALSE
    ELSE IF a = "" THEN TRUE
    ELSE IF Char(a, 1) = Char(b, 1) THEN StrLess(SliceFrom(a, 1), SliceFrom(b, 1))
    ELSE Ord(Char(a, 1)) < Ord(Char(b, 1))

\* str(n) for an integer n >= 0
RECURSIVE Str(_)
Str(n) ==
    IF n < 10 THEN Char("0123456789", n + 1)
    ELSE Str(n \div 10) \o Char("0123456789", (n % 10) + 1)

\* sep.join(parts)
RECURSIVE Join(_, _)
Join(sep, parts) ==
    IF parts = <<>> THEN ""
    ELSE IF Len(parts) = 1 THEN parts[1]
    ELSE parts[1] \o sep \o Join(sep, Tail(parts))

\* ''.join(parts)
RECURSIVE Concat(_)
Concat(ps) == IF ps = <<>> THEN "" ELSE Head(ps) \o Concat(Tail(ps))

\* the least element of a non-empty set of integers
Min(S) == CHOOSE x \in S : \A y \in S : x <= y

\* the first position >= i of s that holds one of the characters cs, or 0
FirstOf(s, cs, i) ==
    LET at == {k \in i..Len(s) : Char(s, k) \in cs} IN
    IF at = {} THEN 0 ELSE Min(at)

\* the last position of the run of whitespace that starts at position i of s
\* (i - 1 when s[i] is no whitespace)
WsRunEnd(s, i) ==
    LET at == {k \in i..Len(s) : ~IsSpace(Char(s, k))} IN
    IF at = {} THEN Len(s) ELSE Min(at) - 1

\* s.strip()
LStrip(s) == SubSeq(s, WsRunEnd(s, 1) + 1, Len(s))

RStrip(s) ==
    LET at == {k \in 1..Len(s) : ~IsSpace(Char(s, k))} IN
    IF at = {} THEN "" ELSE SubSeq(s, 1, CHOOSE k \in at : \A m \in at : m <= k)

Strip(s) == LStrip(RStrip(s))

\* s.split() from position i on: the maximal runs of non-whitespace
\* characters, in order
RECURSIVE SplitWsFrom(_, _)
SplitWsFrom(s, i) ==
    LET start == WsRunEnd(s, i) + 1
        stop == FirstOf(s, {" ", "\t", "\n", "\r", "\f"}, start) IN
    IF start > Len(s) THEN <<>>
    ELSE IF stop = 0 THEN <<SubSeq(s, start, Len(s))>>
    ELSE <<SubSeq(s, start, stop - 1)>> \o SplitWsFrom(s, stop)

SplitWs(s) == SplitWsFrom(s, 1)

\* s.startswith(p)
StartsWith(s, p) == Len(s) >= Len(p) /\ SubSeq(s, 1, Len(p)) = p

\* the 0-based offset of the first occurrence of sub in s, or -1 (str.find)
Find(s, sub) ==
    LET at == {i \in 0..(Len(s) - Len(sub)) : SubSeq(s, i + 1, i + Len(sub)) = sub} IN
    IF at = {} THEN -1 ELSE Min(at)

\* sub in s
Contains(s, sub) == Find(s, sub) >= 0

\* s.split(sep): every piece between occurrences of sep, empty ones included
RECURSIVE SplitOn(_, _)
SplitOn(s, sep) ==
    LET i == Find(s, sep) IN
    IF i < 0 THEN <<s>>
    ELSE <<SubSeq(s, 1, i)>> \o SplitOn(SliceFrom(s, i + Len(sep)), sep)

\* s.split(sep, 1)
SplitOnce(s, sep) ==
    LET i == Find(s, sep) IN
    IF i < 0 THEN <<s>>
    ELSE <<SubSeq(s, 1, i), SliceFrom(s, i + Len(sep))>>

\* s.replace(old, new)
RECURSIVE Replace(_, _, _)
Replace(s, old, new) ==
    LET i == Find(s, old) IN
    IF i < 0 THEN s
    ELSE SubSeq(s, 1, i) \o new \o Replace(SliceFrom(s, i + Len(old)), old, new)

-----------------------------------------------------------------------------
(* get_numbering_marker                                                    *)

\* stand-ins for the non-ASCII characters of the source, one character each
BULLET == "@"
ENDASH == "~"
DAGGER == "+"
DDAGGER == "#"
SECTION == "$"
PILCROW == "%"
DBLBAR == "|"

symbols ==
    <<"*", DAGGER, DDAGGER, SECTION, PILCROW, DBLBAR, "**",
      DAGGER \o DAGGER, DDAGGER \o DDAGGER>>

roman_numerals ==
    <<"i", "ii", "iii", "iv", "v", "vi", "vii", "viii", "ix", "x",
      "xi", "xii", "xiii", "xiv", "xv", "xvi", "xvii", "xviii", "xix", "xx">>

AlphaLimit == 26

\* get_numbering_marker with the alpha test off by one (index < 26)
get_numbering_marker_AlphaOffByOne(style, i) ==
    IF style = "numeric" THEN "[" \o Str(i) \o "]"
    ELSE IF style = "numeric_dot" THEN Str(i) \o "."
    ELSE IF style = "numeric_paren" THEN "(" \o Str(i) \o ")"
    ELSE IF style = "bullet" THEN BULLET
    ELSE IF style = "dash" THEN ENDASH
    ELSE IF style = "asterisk" THEN "*"
    ELSE IF style = "symbols"
         THEN (IF i - 1 < Len(symbols) THEN symbols[i] ELSE "[" \o Str(i) \o "]")
    ELSE IF style = "alpha"
         THEN (IF i < AlphaLimit THEN Chr(96 + i) \o "." ELSE "[" \o Str(i) \o "]")
    ELSE IF style = "roman"
         THEN (IF i - 1 < Len(roman_numerals)
               THEN roman_numerals[i] \o "." ELSE "[" \o Str(i) \o "]")
    ELSE IF style = "none" THEN ""
    ELSE "[" \o Str(i) \o "]"

\* get_numbering_marker with the table tests off by one (index < len(table))
get_numbering_marker_TableOffByOne(style, i) ==
    IF style = "numeric" THEN "[" \o Str(i) \o "]"
    ELSE IF style = "numeric_dot" THEN Str(i) \o "."
    ELSE IF style = "numeric_paren" THEN "(" \o Str(i) \o ")"
    ELSE IF style = "bullet" THEN BULLET
    ELSE IF style = "dash" THEN ENDASH
    ELSE IF style = "asterisk" THEN "*"
    ELSE IF style = "symbols"
         THEN (IF i < Len(symbols) THEN symbols[i] ELSE "[" \o Str(i) \o "]")
    ELSE IF style = "alpha"
         THEN (IF i <= AlphaLimit THEN Chr(96 + i) \o "." ELSE "[" \o Str(i) \o "]")
    ELSE IF style = "roman"
         THEN (IF i < Len(roman_numerals)
               THEN roman_numerals[i] \o "." ELSE "[" \o Str(i) \o "]")
    ELSE IF style = "none" THEN ""
    ELSE "[" \o Str(i) \o "]"

\* get_numbering_marker(self, index) with style = self.options.numbering_style,
\* for index >= 1
get_numbering_marker(style, i) ==
    IF style = "numeric" THEN "[" \o Str(i) \o "]"
    ELSE IF style = "numeric_dot" THEN Str(i) \o "."
    ELSE IF style = "numeric_paren" THEN "(" \o Str(i) \o ")"
    ELSE IF style = "bullet" THEN BULLET
    ELSE IF style = "dash" THEN ENDASH
    ELSE IF style = "asterisk" THEN "*"
    ELSE IF style = "symbols"
         THEN (IF i - 1 < Len(symbols) THEN symbols[i] ELSE "[" \o Str(i) \o "]")
    ELSE IF style = "alpha"
         THEN (IF i <= AlphaLimit THEN Chr(96 + i) \o "." ELSE "[" \o Str(i) \o "]")
    ELSE IF style = "roman"
         THEN (IF i - 1 < Len(roman_numerals)
               THEN roman_numerals[i] \o "." ELSE "[" \o Str(i) \o "]")
    ELSE IF style = "none" THEN ""
    ELSE "[" \o Str(i) \o "]"

-----------------------------------------------------------------------------
(* dicts: a dict is a function from its keys to its values                 *)

EmptyDict == [k \in {} |-> ""]

\* d.get(k, default)
Get(d, k, default) == IF k \in DOMAIN d THEN d[k] ELSE default

\* d[k] = v
Put(d, k, v) == [x \in DOMAIN d \cup {k} |-> IF x = k THEN v ELSE d[x]]

-----------------------------------------------------------------------------
(* sort_entries                                                            *)

\* the key= lambda of each sorted() call
SortKey(order, x) ==
    IF order = "author" THEN Lower(Get(x.fields, "author", ""))
    ELSE IF order = "year" THEN Get(x.fields, "year", "9999")
    ELSE Lower(Get(x.fields, "title", ""))

\* x inserted into the sorted list s before the first element whose key is
\* greater or equal: an unstable insertion
RECURSIVE InsertByKey_Unstable(_, _, _)
InsertByKey_Unstable(order, x, s) ==
    IF s = <<>> THEN <<x>>
    ELSE IF ~StrLess(SortKey(order, Head(s)), SortKey(order, x)) THEN <<x>> \o s
    ELSE <<Head(s)>> \o InsertByKey_Unstable(order, x, Tail(s))

\* sorted() is stable: x, which comes after the elements of s in the input,
\* goes before the first element of s whose key is strictly greater
RECURSIVE InsertByKey(_, _, _)
InsertByKey(order, x, s) ==
    IF s = <<>> THEN <<x>>
    ELSE IF StrLess(SortKey(order, x), SortKey(order, Head(s))) THEN <<x>> \o s
    ELSE <<Head(s)>> \o InsertByKey(order, x, Tail(s))

\* sorted(es, key=SortKey)
RECURSIVE SortedByKey(_, _)
SortedByKey(order, es) ==
    IF es = <<>> THEN <<>>
    ELSE InsertByKey(order, es[Len(es)], SortedByKey(order, SubSeq(es, 1, Len(es) - 1)))

\* sort_entries(self, entries) with order = self.options.sort_order
sort_entries(order, es) ==
    IF order \in {"author", "year", "title"} THEN SortedByKey(order, es)
    ELSE es

-----------------------------------------------------------------------------
(* wrap_text                                                               *)

\* the loop variables before the first word
WrapStart ==
    [lines |-> <<>>, current_line |-> <<>>, current_length |-> 0, is_first_line |-> TRUE]

\* one iteration of `for word in words` that leaves the spaces between the
\* words of a line out of the test
WrapStep_NoSpaces(st, word, first_line_max, subsequent_max) ==
    LET max_line_length == IF st.is_first_line THEN first_line_max ELSE subsequent_max IN
    IF st.current_length + Len(word) <= max_line_length
    THEN [st EXCEPT !.current_line = Append(@, word),
                    !.current_length = @ + Len(word)]
    ELSE [lines |-> IF st.current_line # <<>>
                    THEN Append(st.lines, Join(" ", st.current_line)) ELSE st.lines,
          is_first_line |-> IF st.current_line # <<>> THEN FALSE ELSE st.is_first_line,
          current_line |-> <<word>>,
          current_length |-> Len(word)]

\* one iteration that never leaves the first-line budget
WrapStep_FirstBudgetOnly(st, word, first_line_max, subsequent_max) ==
    LET max_line_length == first_line_max IN
    IF st.current_length + Len(word) + Len(st.current_line) <= max_line_length
    THEN [st EXCEPT !.current_line = Append(@, word),
                    !.current_length = @ + Len(word)]
    ELSE [lines |-> IF st.current_line # <<>>
                    THEN Append(st.lines, Join(" ", st.current_line)) ELSE st.lines,
          is_first_line |-> IF st.current_line # <<>> THEN FALSE ELSE st.is_first_line,
          current_line |-> <<word>>,
          current_length |-> Len(word)]

\* one iteration of `for word in words`
WrapStep(st, word, first_line_max, subsequent_max) ==
    LET max_line_length == IF st.is_first_line THEN first_line_max ELSE subsequent_max IN
    IF st.current_length + Len(word) + Len(st.current_line) <= max_line_length
    THEN [st EXCEPT !.current_line = Append(@, word),
                    !.current_length = @ + Len(word)]
    ELSE [lines |-> IF st.current_line # <<>>
                    THEN Append(st.lines, Join(" ", st.current_line)) ELSE st.lines,
          is_first_line |-> IF st.current_line # <<>> THEN FALSE ELSE st.is_first_line,
          current_line |-> <<word>>,
          current_length |-> Len(word)]

\* the whole loop, from the loop variables st over the words left
RECURSIVE WrapLoop(_, _, _, _)
WrapLoop(st, words, first_line_max, subsequent_max) ==
    IF words = <<>> THEN st
    ELSE WrapLoop(WrapStep(st, Head(words), first_line_max, subsequent_max),
                  Tail(words), first_line_max, subsequent_max)

\* the lines returned without the flush of the line being built
WrapFinish_NoFlush(st) == st.lines

\* after the loop: the line being built, if any, is the last line
WrapFinish(st) ==
    IF st.current_line # <<>> THEN Append(st.lines, Join(" ", st.current_line))
    ELSE st.lines

\* wrap_text(self, text, max_width_chars, first_line_indent, subsequent_indent)
wrap_text(t, width, first_indent, later_indent) ==
    WrapFinish(WrapLoop(WrapStart, SplitWs(t), width - first_indent, width - later_indent))

-----------------------------------------------------------------------------
(* format_authors and the nine style composers                             *)

\* the outcome of a call that may raise: the value returned, or str(e) of the
\* exception e raised
Ok(v) == [exc |-> "", val |-> v]
Raise(e) == [exc |-> e, val |-> ""]

\* [a.strip() for a in pieces], then [a for a in authors if a]
RECURSIVE StripNonEmpty(_)
StripNonEmpty(pieces) ==
    IF pieces = <<>> THEN <<>>
    ELSE (IF Strip(Head(pieces)) # "" THEN <<Strip(Head(pieces))>> ELSE <<>>)
         \o StripNonEmpty(Tail(pieces))

\* the authors list of format_authors
AuthorList(author_str) == StripNonEmpty(SplitOn(Replace(author_str, " and ", ", "), ","))

\* [p[0] for p in parts[:-1] if p]
FirstChars(parts) == [i \in 1..(Len(parts) - 1) |-> Char(parts[i], 1)]

\* one author in the "Last, F. M." form, with the initials dropped
ApaName_NoInitials(author) ==
    LET parts == SplitWs(author) IN
    IF Len(parts) > 1 THEN parts[Len(parts)] ELSE author

\* one author in the "Last, F. M." form
ApaName(author) ==
    LET parts == SplitWs(author) IN
    IF Len(parts) > 1
    THEN parts[Len(parts)] \o ", " \o Join(". ", FirstChars(parts)) \o "."
    ELSE author

\* one author in the "Last FM" form
IeeeName(author) ==
    LET parts == SplitWs(author) IN
    IF Len(parts) > 1
    THEN parts[Len(parts)] \o " " \o Join("", FirstChars(parts))
    ELSE author

ApaNames(authors) == [i \in 1..Len(authors) |-> ApaName(authors[i])]
IeeeNames(authors) == [i \in 1..Len(authors) |-> IeeeName(authors[i])]

AuthorLimit == 6

\* format_authors with two names joined the way three or more are
format_authors_TwoLikeMany(author_str, style) ==
    IF author_str = "" THEN Ok("")
    ELSE LET authors == AuthorList(author_str) IN
    IF style \in {"apa", "apa7", "chicago", "harvard"}
    THEN LET formatted_names == ApaNames(authors)
             n == Len(formatted_names) IN
         IF n >= 2
         THEN Ok(Join(", ", SubSeq(formatted_names, 1, n - 1)) \o ", & " \o formatted_names[n])
         ELSE IF n = 1 THEN Ok(formatted_names[1]) ELSE Ok("")
    ELSE IF style = "mla"
    THEN IF Len(authors) > 1 THEN Ok(authors[1] \o ", et al.")
         ELSE IF Len(authors) = 1 THEN Ok(authors[1])
         ELSE Raise("list index out of range")
    ELSE IF style \in {"ieee", "vancouver", "nature"}
    THEN LET formatted_names ==
                 IeeeNames(SubSeq(authors, 1, IF Len(authors) < AuthorLimit
                                              THEN Len(authors) ELSE AuthorLimit)) IN
         IF Len(authors) > AuthorLimit THEN Ok(Join(", ", formatted_names) \o ", et al.")
         ELSE Ok(Join(", ", formatted_names))
    ELSE Ok(Join(", ", authors))

\* format_authors(self, author_str, style)
format_authors(author_str, style) ==
    IF author_str = "" THEN Ok("")
    ELSE LET authors == AuthorList(author_str) IN
    IF style \in {"apa", "apa7", "chicago", "harvard"}
    THEN LET formatted_names == ApaNames(authors)
             n == Len(formatted_names) IN
         IF n > 2
         THEN Ok(Join(", ", SubSeq(formatted_names, 1, n - 1)) \o ", & " \o formatted_names[n])
         ELSE IF n = 2 THEN Ok(formatted_names[1] \o " & " \o formatted_names[2])
         ELSE IF n = 1 THEN Ok(formatted_names[1]) ELSE Ok("")
    ELSE IF style = "mla"
    THEN IF Len(authors) > 1 THEN Ok(authors[1] \o ", et al.")
         ELSE IF Len(authors) = 1 THEN Ok(authors[1])
         ELSE Raise("list index out of range")
    ELSE IF style \in {"ieee", "vancouver", "nature"}
    THEN LET formatted_names ==
                 IeeeNames(SubSeq(authors, 1, IF Len(authors) < AuthorLimit
                                              THEN Len(authors) ELSE AuthorLimit)) IN
         IF Len(authors) > AuthorLimit THEN Ok(Join(", ", formatted_names) \o ", et al.")
         ELSE Ok(Join(", ", formatted_names))
    ELSE Ok(Join(", ", authors))

\* format_apa(self, entry_type, authors, year, title, fields)
format_apa(entry_type, authors, year, title, fields) ==
    LET p1 == IF authors # "" THEN <<authors \o " (" \o year \o ").">>
              ELSE <<"(" \o year \o ").">>
        vol_str == fields["journal"]
                   \o (IF "volume" \in DOMAIN fields THEN ", " \o fields["volume"] ELSE "")
                   \o (IF "number" \in DOMAIN fields THEN "(" \o fields["number"] \o ")" ELSE "")
                   \o (IF "pages" \in DOMAIN fields THEN ", " \o fields["pages"] ELSE "")
        p2 == IF entry_type = "article"
              THEN <<title \o ".">>
                   \o (IF "journal" \in DOMAIN fields THEN <<vol_str \o ".">> ELSE <<>>)
              ELSE <<title \o ".">>
                   \o (IF "publisher" \in DOMAIN fields
                       THEN <<fields["publisher"] \o ".">> ELSE <<>>)
    IN Join(" ", p1 \o p2)

\* format_mla
format_mla(entry_type, authors, year, title, fields) ==
    LET p1 == IF authors # "" THEN <<authors \o ".">> ELSE <<>>
        p2 == <<"\"" \o title \o ".\"">>
        p3 == IF entry_type = "article" /\ "journal" \in DOMAIN fields
              THEN <<fields["journal"] \o ",">>
                   \o (IF "volume" \in DOMAIN fields
                       THEN <<"vol. " \o fields["volume"] \o ",">> ELSE <<>>)
                   \o (IF "number" \in DOMAIN fields
                       THEN <<"no. " \o fields["number"] \o ",">> ELSE <<>>)
                   \o <<year \o ",">>
                   \o (IF "pages" \in DOMAIN fields
                       THEN <<"pp. " \o fields["pages"] \o ".">> ELSE <<>>)
              ELSE IF "publisher" \in DOMAIN fields
                   THEN <<fields["publisher"] \o ", " \o year \o ".">> ELSE <<>>
    IN Join(" ", p1 \o p2 \o p3)

\* format_chicago
format_chicago(entry_type, authors, year, title, fields) ==
    LET p1 == IF authors # "" THEN <<authors \o ".">> ELSE <<>>
        p2 == <<year \o ". \"" \o title \o ".\"">>
        journal_part ==
            fields["journal"]
            \o (IF "volume" \in DOMAIN fields THEN " " \o fields["volume"] ELSE "")
            \o (IF "number" \in DOMAIN fields THEN ", no. " \o fields["number"] ELSE "")
            \o (IF "pages" \in DOMAIN fields THEN ": " \o fields["pages"] ELSE "")
        p3 == IF entry_type = "article" /\ "journal" \in DOMAIN fields
              THEN <<journal_part \o ".">>
              ELSE IF "publisher" \in DOMAIN fields
                   THEN <<fields["publisher"] \o ".">> ELSE <<>>
    IN Join(" ", p1 \o p2 \o p3)

\* harvard composed with the Chicago template instead of the APA one
format_harvard_AsChicago(entry_type, authors, year, title, fields) ==
    format_chicago(entry_type, authors, year, title, fields)

\* format_harvard
format_harvard(entry_type, authors, year, title, fields) ==
    format_apa(entry_type, authors, year, title, fields)

\* format_ieee with the year left out of the journal clause
format_ieee_NoYear(entry_type, authors, year, title, fields) ==
    LET p1 == IF authors # "" THEN <<authors \o ",">> ELSE <<>>
        p2 == <<"\"" \o title \o ",\"">>
        journal_part ==
            fields["journal"]
            \o (IF "volume" \in DOMAIN fields THEN ", vol. " \o fields["volume"] ELSE "")
            \o (IF "number" \in DOMAIN fields THEN ", no. " \o fields["number"] ELSE "")
            \o (IF "pages" \in DOMAIN fields THEN ", pp. " \o fields["pages"] ELSE "")
        p3 == IF entry_type = "article" /\ "journal" \in DOMAIN fields
              THEN <<journal_part \o ".">>
              ELSE IF "publisher" \in DOMAIN fields
                   THEN <<fields["publisher"] \o ", " \o year \o ".">> ELSE <<>>
    IN Join(" ", p1 \o p2 \o p3)

\* format_ieee
format_ieee(entry_type, authors, year, title, fields) ==
    LET p1 == IF authors # "" THEN <<authors \o ",">> ELSE <<>>
        p2 == <<"\"" \o title \o ",\"">>
        journal_part ==
            fields["journal"]
            \o (IF "volume" \in DOMAIN fields THEN ", vol. " \o fields["volume"] ELSE "")
            \o (IF "number" \in DOMAIN fields THEN ", no. " \o fields["number"] ELSE "")
            \o (IF "pages" \in DOMAIN fields THEN ", pp. " \o fields["pages"] ELSE "")
        p3 == IF entry_type = "article" /\ "journal" \in DOMAIN fields
              THEN <<journal_part \o ", " \o year \o ".">>
              ELSE IF "publisher" \in DOMAIN fields
                   THEN <<fields["publisher"] \o ", " \o year \o ".">> ELSE <<>>
    IN Join(" ", p1 \o p2 \o p3)

\* the volume(issue):pages part of format_vancouver and format_ama
VolIssuePages(fields) ==
    fields["volume"]
    \o (IF "number" \in DOMAIN fields THEN "(" \o fields["number"] \o ")" ELSE "")
    \o (IF "pages" \in DOMAIN fields THEN ":" \o fields["pages"] ELSE "")

\* format_vancouver
format_vancouver(entry_type, authors, year, title, fields) ==
    LET p1 == IF authors # "" THEN <<authors \o ".">> ELSE <<>>
        p2 == <<title \o ".">>
        date_str == IF "month" \in DOMAIN fields THEN year \o " " \o fields["month"] ELSE year
        p3 == IF entry_type = "article" /\ "journal" \in DOMAIN fields
              THEN <<fields["journal"] \o ".">>
                   \o (IF "year" \in DOMAIN fields THEN <<date_str \o ";">> ELSE <<>>)
                   \o (IF "volume" \in DOMAIN fields
                       THEN <<VolIssuePages(fields) \o ".">> ELSE <<>>)
              ELSE IF "publisher" \in DOMAIN fields
                   THEN <<fields["publisher"] \o "; " \o year \o ".">> ELSE <<>>
    IN Join(" ", p1 \o p2 \o p3)

\* format_ama
format_ama(entry_type, authors, year, title, fields) ==
    LET p1 == IF authors # "" THEN <<authors \o ".">> ELSE <<>>
        p2 == <<title \o ".">>
        p3 == IF entry_type = "article" /\ "journal" \in DOMAIN fields
              THEN <<fields["journal"] \o ".">>
                   \o (IF "year" \in DOMAIN fields THEN <<year \o ";">> ELSE <<>>)
                   \o (IF "volume" \in DOMAIN fields
                       THEN <<VolIssuePages(fields) \o ".">> ELSE <<>>)
              ELSE IF "publisher" \in DOMAIN fields
                   THEN <<fields["publisher"] \o "; " \o year \o ".">> ELSE <<>>
    IN Join(" ", p1 \o p2 \o p3)

\* format_acs
format_acs(entry_type, authors, year, title, fields) ==
    LET p1 == IF authors # "" THEN <<authors \o ".">> ELSE <<>>
        p2 == <<title \o ".">>
        journal_part ==
            fields["journal"]
            \o (IF "year" \in DOMAIN fields THEN " " \o year ELSE "")
            \o (IF "volume" \in DOMAIN fields THEN ", " \o fields["volume"] ELSE "")
            \o (IF "pages" \in DOMAIN fields THEN ", " \o fields["pages"] ELSE "")
        p3 == IF entry_type = "article" /\ "journal" \in DOMAIN fields
              THEN <<journal_part \o ".">>
              ELSE IF "publisher" \in DOMAIN fields
                   THEN <<fields["publisher"] \o ": " \o year \o ".">> ELSE <<>>
    IN Join(" ", p1 \o p2 \o p3)

\* format_nature
format_nature(entry_type, authors, year, title, fields) ==
    LET p1 == IF authors # "" THEN <<authors \o ".">> ELSE <<>>
        p2 == <<title \o ".">>
        vol_str ==
            fields["journal"]
            \o (IF "volume" \in DOMAIN fields THEN " " \o fields["volume"] \o "," ELSE "")
            \o (IF "pages" \in DOMAIN fields THEN " " \o fields["pages"] ELSE "")
            \o " (" \o year \o ")"
        p3 == IF entry_type = "article" /\ "journal" \in DOMAIN fields
              THEN <<vol_str \o ".">>
              ELSE IF "publisher" \in DOMAIN fields
                   THEN <<"(" \o fields["publisher"] \o ", " \o year \o ").">> ELSE <<>>
    IN Join(" ", p1 \o p2 \o p3)

\* format_entry_python(self, entry, style): the string returned, or the
\* exception format_authors raised
format_entry_python(e, style) ==
    LET fields == e.fields
        entry_type == e.type
        got == format_authors(Get(fields, "author", ""), style)
        authors == got.val
        year == Get(fields, "year", "n.d.")
        title == Get(fields, "title", "")
    IN
    IF got.exc # "" THEN got
    ELSE IF style \in {"apa", "apa7"} THEN Ok(format_apa(entry_type, authors, year, title, fields))
    ELSE IF style = "mla" THEN Ok(format_mla(entry_type, authors, year, title, fields))
    ELSE IF style = "chicago" THEN Ok(format_chicago(entry_type, authors, year, title, fields))
    ELSE IF style = "harvard" THEN Ok(format_harvard(entry_type, authors, year, title, fields))
    ELSE IF style = "ieee" THEN Ok(format_ieee(entry_type, authors, year, title, fields))
    ELSE IF style = "vancouver" THEN Ok(format_vancouver(entry_type, authors, year, title, fields))
    ELSE IF style = "ama" THEN Ok(format_ama(entry_type, authors, year, title, fields))
    ELSE IF style = "acs" THEN Ok(format_acs(entry_type, authors, year, title, fields))
    ELSE IF style = "nature" THEN Ok(format_nature(entry_type, authors, year, title, fields))
    ELSE Ok(format_apa(entry_type, authors, year, title, fields))

-----------------------------------------------------------------------------
(* parse_endnote                                                           *)

\* the last position in a..b of s that holds a newline, or 0
LastNewline(s, a, b) ==
    LET at == {k \in a..b : Char(s, k) = "\n"} IN
    IF at = {} THEN 0 ELSE CHOOSE k \in at : \A m \in at : m <= k

\* re.split(r'\n\s*\n', s): a separator is a newline, the whitespace after
\* it and the last newline of that whitespace.  `from` is where the piece
\* being read starts, i the position looked at.
RECURSIVE SplitBlankFrom(_, _, _)
SplitBlankFrom(s, from, i) ==
    LET n == FirstOf(s, {"\n"}, i) IN
    IF n = 0 THEN <<SubSeq(s, from, Len(s))>>
    ELSE IF LastNewline(s, n + 1, WsRunEnd(s, n + 1)) > 0
         THEN LET k == LastNewline(s, n + 1, WsRunEnd(s, n + 1)) IN
              <<SubSeq(s, from, n - 1)>> \o SplitBlankFrom(s, k + 1, k + 1)
         ELSE SplitBlankFrom(s, from, n + 1)

SplitBlank(s) == SplitBlankFrom(s, 1, 1)

\* fields[name] += ' and ' + value, or fields[name] = value
AddAuthor(fields, value) ==
    IF "author" \in DOMAIN fields
    THEN Put(fields, "author", fields["author"] \o " and " \o value)
    ELSE Put(fields, "author", value)

\* the loop variables of one record: the fields, the type and what was raised
RecordStart == [fields |-> EmptyDict, entry_type |-> "article", exc |-> ""]

\* one line of an EndNote record, with a line too short for a tag skipped
EndnoteLine_SkipShort(st, line) ==
    IF st.exc # "" THEN st
    ELSE IF Strip(line) = "" \/ ~StartsWith(line, "%") THEN st
    ELSE IF Len(line) < 2 THEN st
    ELSE LET tag == Char(line, 2)
             value == Strip(SliceFrom(line, 2)) IN
         IF tag = "0" THEN [st EXCEPT !.entry_type = Lower(value)]
         ELSE IF tag = "A" THEN [st EXCEPT !.fields = AddAuthor(@, value)]
         ELSE IF tag = "T" THEN [st EXCEPT !.fields = Put(@, "title", value)]
         ELSE IF tag = "D" THEN [st EXCEPT !.fields = Put(@, "year", Slice(value, 0, 4))]
         ELSE IF tag = "J" THEN [st EXCEPT !.fields = Put(@, "journal", value)]
         ELSE IF tag = "V" THEN [st EXCEPT !.fields = Put(@, "volume", value)]
         ELSE IF tag = "N" THEN [st EXCEPT !.fields = Put(@, "number", value)]
         ELSE IF tag = "P" THEN [st EXCEPT !.fields = Put(@, "pages", value)]
         ELSE IF tag = "I" THEN [st EXCEPT !.fields = Put(@, "publisher", value)]
         ELSE st

\* one line of an EndNote record: line[1] raises IndexError on the line "%"
EndnoteLine(st, line) ==
    IF st.exc # "" THEN st
    ELSE IF Strip(line) = "" \/ ~StartsWith(line, "%") THEN st
    ELSE IF Len(line) < 2 THEN [st EXCEPT !.exc = "string index out of range"]
    ELSE LET tag == Char(line, 2)
             value == Strip(SliceFrom(line, 2)) IN
         IF tag = "0" THEN [st EXCEPT !.entry_type = Lower(value)]
         ELSE IF tag = "A" THEN [st EXCEPT !.fields = AddAuthor(@, value)]
         ELSE IF tag = "T" THEN [st EXCEPT !.fields = Put(@, "title", value)]
         ELSE IF tag = "D" THEN [st EXCEPT !.fields = Put(@, "year", Slice(value, 0, 4))]
         ELSE IF tag = "J" THEN [st EXCEPT !.fields = Put(@, "journal", value)]
         ELSE IF tag = "V" THEN [st EXCEPT !.fields = Put(@, "volume", value)]
         ELSE IF tag = "N" THEN [st EXCEPT !.fields = Put(@, "number", value)]
         ELSE IF tag = "P" THEN [st EXCEPT !.fields = Put(@, "pages", value)]
         ELSE IF tag = "I" THEN [st EXCEPT !.fields = Put(@, "publisher", value)]
         ELSE st

RECURSIVE EndnoteLines(_, _)
EndnoteLines(st, ls) ==
    IF ls = <<>> THEN st ELSE EndnoteLines(EndnoteLine(st, Head(ls)), Tail(ls))

\* the entry appended for a record of RIS or EndNote that produced fields
TitleKeyedEntry(st) ==
    [type |-> st.entry_type,
     key |-> Slice(Get(st.fields, "title", "unknown"), 0, 20),
     fields |-> st.fields]

\* `for record in records` of parse_endnote: acc is Ok(entries so far) or what
\* was raised
RECURSIVE EndnoteRecords(_, _)
EndnoteRecords(acc, records) ==
    IF records = <<>> \/ acc.exc # "" THEN acc
    ELSE IF Strip(Head(records)) = "" THEN EndnoteRecords(acc, Tail(records))
    ELSE LET st == EndnoteLines(RecordStart, SplitOn(Head(records), "\n")) IN
         IF st.exc # "" THEN Raise(st.exc)
         ELSE IF st.fields # EmptyDict
              THEN EndnoteRecords(Ok(Append(acc.val, TitleKeyedEntry(st))), Tail(records))
              ELSE EndnoteRecords(acc, Tail(records))

\* the try block of parse_endnote on the text of the file
parse_endnote(c) == EndnoteRecords(Ok(<<>>), SplitBlank(c))

-----------------------------------------------------------------------------
(* parse_ris                                                               *)

\* a RIS line whose unrecognised tag is kept under its lower-cased name
RisLine_KeepUnknown(st, raw) ==
    LET line == Strip(raw) IN
    IF line = "" \/ ~Contains(line, "  -") THEN st
    ELSE LET tag == Strip(SplitOnce(line, "  -")[1])
             value == Strip(SplitOnce(line, "  -")[2]) IN
         IF tag = "TY" THEN [st EXCEPT !.entry_type = Lower(value)]
         ELSE IF tag = "TI" THEN [st EXCEPT !.fields = Put(@, "title", value)]
         ELSE IF tag = "PB" THEN [st EXCEPT !.fields = Put(@, "publisher", value)]
         ELSE [st EXCEPT !.fields = Put(@, Lower(tag), value)]

\* one line of a RIS record
RisLine(st, raw) ==
    LET line == Strip(raw) IN
    IF line = "" \/ ~Contains(line, "  -") THEN st
    ELSE LET tag == Strip(SplitOnce(line, "  -")[1])
             value == Strip(SplitOnce(line, "  -")[2]) IN
         IF tag = "TY" THEN [st EXCEPT !.entry_type = Lower(value)]
         ELSE IF tag = "AU" THEN [st EXCEPT !.fields = AddAuthor(@, value)]
         ELSE IF tag = "TI" THEN [st EXCEPT !.fields = Put(@, "title", value)]
         ELSE IF tag = "PY"
              THEN [st EXCEPT !.fields = Put(@, "year", SplitOn(value, "/")[1])]
         ELSE IF tag \in {"JO", "JF", "T2"}
              THEN [st EXCEPT !.fields = Put(@, "journal", value)]
         ELSE IF tag = "VL" THEN [st EXCEPT !.fields = Put(@, "volume", value)]
         ELSE IF tag = "IS" THEN [st EXCEPT !.fields = Put(@, "number", value)]
         ELSE IF tag = "SP" THEN [st EXCEPT !.fields = Put(@, "pages", value)]
         ELSE IF tag = "EP" /\ "pages" \in DOMAIN st.fields
              THEN [st EXCEPT !.fields = Put(@, "pages", st.fields["pages"] \o "-" \o value)]
         ELSE IF tag = "PB" THEN [st EXCEPT !.fields = Put(@, "publisher", value)]
         ELSE st

RECURSIVE RisLines(_, _)
RisLines(st, ls) ==
    IF ls = <<>> THEN st ELSE RisLines(RisLine(st, Head(ls)), Tail(ls))

\* `for record in records` of parse_ris
RECURSIVE RisRecords(_, _)
RisRecords(acc, records) ==
    IF records = <<>> THEN acc
    ELSE IF Strip(Head(records)) = "" THEN RisRecords(acc, Tail(records))
    ELSE LET st == RisLines(RecordStart, SplitOn(Head(records), "\n")) IN
         IF st.fields # EmptyDict
         THEN RisRecords(Ok(Append(acc.val, TitleKeyedEntry(st))), Tail(records))
         ELSE RisRecords(acc, Tail(records))

\* the try block of parse_ris on the text of the file
parse_ris(c) == RisRecords(Ok(<<>>), SplitOn(c, "ER  -"))

-----------------------------------------------------------------------------
(* parse_json                                                              *)
(* What json.load returns is a pair <<tag, value>>: <<"str", s>>,          *)
(* <<"num", n>> with n >= 0, <<"null", 0>>, <<"list", sequence>> and       *)
(* <<"dict", function from keys to such pairs>>.                           *)

JStrV(x) == <<"str", x>>
JNum(n) == <<"num", n>>
JNull == <<"null", 0>>
JList(xs) == <<"list", xs>>
JDict(d) == <<"dict", d>>

\* type(v).__name__
PyTypeName(v) ==
    IF v[1] = "str" THEN "str"
    ELSE IF v[1] = "num" THEN "int"
    ELSE IF v[1] = "null" THEN "NoneType"
    ELSE IF v[1] = "list" THEN "list"
    ELSE "dict"

\* repr(v) of a string without quotes, a number, None or a list of those
RECURSIVE PyRepr(_)
PyRepr(v) ==
    IF v[1] = "str" THEN "'" \o v[2] \o "'"
    ELSE IF v[1] = "num" THEN Str(v[2])
    ELSE IF v[1] = "null" THEN "None"
    ELSE "[" \o Join(", ", [i \in 1..Len(v[2]) |-> PyRepr(v[2][i])]) \o "]"

\* str(v), for v no dict
PyStr(v) == IF v[1] = "str" THEN v[2] ELSE PyRepr(v)

\* v[0]
Index0(v) ==
    IF v[1] = "list"
    THEN (IF v[2] # <<>> THEN Ok(v[2][1]) ELSE Raise("list index out of range"))
    ELSE IF v[1] = "str"
    THEN (IF v[2] # "" THEN Ok(JStrV(Char(v[2], 1)))
          ELSE Raise("string index out of range"))
    ELSE IF v[1] = "dict" THEN Raise("0")
    ELSE Raise("'" \o PyTypeName(v) \o "' object is not subscriptable")

\* what one element of item['author'] appends to authors: a name or nothing
AuthorName(author) ==
    IF author[1] # "dict" THEN <<>>
    ELSE IF {"family", "given"} \subseteq DOMAIN author[2]
         THEN <<PyStr(author[2]["given"]) \o " " \o PyStr(author[2]["family"])>>
    ELSE IF "literal" \in DOMAIN author[2] THEN <<author[2]["literal"][2]>>
    ELSE <<>>

RECURSIVE AuthorNames(_)
AuthorNames(xs) ==
    IF xs = <<>> THEN <<>> ELSE AuthorName(Head(xs)) \o AuthorNames(Tail(xs))

\* `for author in item['author']`: the authors list, or what iterating raised.
\* Iterating a string or a dict yields strings, none of them a dict.
JsonAuthors(av) ==
    IF av[1] = "list" THEN Ok(AuthorNames(av[2]))
    ELSE IF av[1] \in {"str", "dict"} THEN Ok(<<>>)
    ELSE Raise("'" \o PyTypeName(av) \o "' object is not iterable")

\* the author step that leaves the field out when iterating is not possible
JsonAuthorField_Lenient(d, fields) ==
    IF "author" \notin DOMAIN d THEN Ok(fields)
    ELSE LET got == JsonAuthors(d["author"]) IN
         IF got.exc # "" THEN Ok(fields)
         ELSE Ok(Put(fields, "author", Join(" and ", got.val)))

\* the author step of one item
JsonAuthorField(d, fields) ==
    IF "author" \notin DOMAIN d THEN Ok(fields)
    ELSE LET got == JsonAuthors(d["author"]) IN
         IF got.exc # "" THEN got
         ELSE Ok(Put(fields, "author", Join(" and ", got.val)))

\* field_map, in its order
field_map ==
    << <<"title", "title">>, <<"container-title", "journal">>,
       <<"publisher", "publisher">>, <<"volume", "volume">>, <<"issue", "number">>,
       <<"page", "pages">> >>

\* `for json_field, bib_field in field_map.items()` from the i-th pair on
RECURSIVE JsonMapFields(_, _, _)
JsonMapFields(d, fields, i) ==
    IF i > Len(field_map) THEN fields
    ELSE JsonMapFields(d,
            IF field_map[i][1] \in DOMAIN d
            THEN Put(fields, field_map[i][2], PyStr(d[field_map[i][1]]))
            ELSE fields,
            i + 1)

\* the year step of one item
JsonYearField(d, fields) ==
    IF "issued" \notin DOMAIN d THEN Ok(fields)
    ELSE LET issued == d["issued"] IN
         IF issued[1] = "dict" /\ "date-parts" \in DOMAIN issued[2]
         THEN LET first == Index0(issued[2]["date-parts"]) IN
              IF first.exc # "" THEN first
              ELSE LET y == Index0(first.val) IN
                   IF y.exc # "" THEN y
                   ELSE Ok(Put(fields, "year", PyStr(y.val)))
         ELSE IF issued[1] = "str" THEN Ok(Put(fields, "year", Slice(issued[2], 0, 4)))
         ELSE Ok(fields)

\* entry_type of one item: a type that holds 'journal' becomes 'article'.
\* On a string `in` is a substring test, on a list a membership test (the
\* list that stays the entry type is written as its repr), on a number or
\* None it raises TypeError.  A dict as type is outside the modelled inputs.
JsonEntryType(d) ==
    IF "type" \notin DOMAIN d THEN Ok("article")
    ELSE IF d["type"][1] = "str"
         THEN Ok(IF Contains(d["type"][2], "journal") THEN "article" ELSE d["type"][2])
    ELSE IF d["type"][1] = "list"
         THEN Ok(IF \E i \in DOMAIN d["type"][2] : d["type"][2][i] = JStrV("journal")
                 THEN "article" ELSE PyRepr(d["type"]))
    ELSE Raise("argument of type '" \o PyTypeName(d["type"]) \o "' is not iterable")

\* the names the loop body looks up with `name in item`
JsonLookups == {"author", "issued"} \cup {field_map[i][1] : i \in DOMAIN field_map}

\* one iteration of `for item in data`: the entry appended, or what was raised.
\* An item that is no object fails at the first `in` (number, null), at the
\* first item[name] after an `in` that held (string: substring test, list:
\* membership test), or else at item.get.
JsonItem(item) ==
    IF item[1] = "dict"
    THEN LET d == item[2]
             a == JsonAuthorField(d, EmptyDict) IN
         IF a.exc # "" THEN a
         ELSE LET y == JsonYearField(d, JsonMapFields(d, a.val, 1)) IN
              IF y.exc # "" THEN y
              ELSE LET ty == JsonEntryType(d) IN
                   IF ty.exc # "" THEN ty
                   ELSE Ok([type |-> ty.val,
                            key |-> IF "id" \in DOMAIN d THEN d["id"][2]
                                    ELSE Slice(Get(y.val, "title", "unknown"), 0, 20),
                            fields |-> y.val])
    ELSE IF item[1] = "str"
         THEN (IF \E n \in JsonLookups : Contains(item[2], n)
               THEN Raise("string indices must be integers, not 'str'")
               ELSE Raise("'str' object has no attribute 'get'"))
    ELSE IF item[1] = "list"
         THEN (IF \E n \in JsonLookups : \E i \in DOMAIN item[2] : item[2][i] = JStrV(n)
               THEN Raise("list indices must be integers or slices, not str")
               ELSE Raise("'list' object has no attribute 'get'"))
    ELSE Raise("argument of type '" \o PyTypeName(item) \o "' is not iterable")

RECURSIVE JsonItems(_, _)
JsonItems(acc, items) ==
    IF items = <<>> \/ acc.exc # "" THEN acc
    ELSE LET got == JsonItem(Head(items)) IN
         IF got.exc # "" THEN got
         ELSE JsonItems(Ok(Append(acc.val, got.val)), Tail(items))

\* the try block of parse_json on what json.load returned
parse_json(d) ==
    IF d[1] = "dict" THEN JsonItems(Ok(<<>>), <<d>>)
    ELSE IF d[1] = "list" THEN JsonItems(Ok(<<>>), d[2])
    ELSE IF d[1] = "str"
         THEN (IF d[2] = "" THEN Ok(<<>>)
               ELSE Raise("'str' object has no attribute 'get'"))
    ELSE Raise("'" \o PyTypeName(d) \o "' object is not iterable")

-----------------------------------------------------------------------------
(* parse_bibtex                                                            *)
(* The two regular expressions are matched as re matches them: leftmost,   *)
(* greedy, and neither has a second way to match from a given start, so a  *)
(* match is found by one scan.  Positions are 1-based; 0 stands for        *)
(* failure.                                                                *)

\* \w for the characters of the model
IsWord(c) ==
    c # "" /\ \/ (Ord(c) >= 48 /\ Ord(c) <= 57)
              \/ (Ord(c) >= 65 /\ Ord(c) <= 90)
              \/ (Ord(c) >= 97 /\ Ord(c) <= 122)
              \/ c = "_"

\* the last position of the run of word characters that starts at i (i - 1
\* when s[i] is none)
WordRunEnd(s, i) ==
    LET at == {k \in i..Len(s) : ~IsWord(Char(s, k))} IN
    IF at = {} THEN Len(s) ELSE Min(at) - 1

\* the first position >= i of s that holds a word character, or 0
FirstWord(s, i) ==
    LET at == {k \in i..Len(s) : IsWord(Char(s, k))} IN
    IF at = {} THEN 0 ELSE Min(at)

\* (?:[^{}X]|\{[^{}]*\})* from position i, X the characters of `stops` besides
\* the braces: the position where the greedy repetition stops, which is a
\* character of `stops`, a brace that opens no \{[^{}]*\}, or Len(s) + 1
RECURSIVE GroupsEnd(_, _, _)
GroupsEnd(s, stops, i) ==
    LET n == FirstOf(s, stops \cup {"{"}, i) IN
    IF n = 0 THEN Len(s) + 1
    ELSE IF Char(s, n) = "{"
         THEN LET q == FirstOf(s, {"{", "}"}, n + 1) IN
              IF q > 0 /\ Char(s, q) = "}" THEN GroupsEnd(s, stops, q + 1) ELSE n
    ELSE n

\* the field pattern (\w+)\s*=\s*[{"]((?:[^{}"]|\{[^{}]*\})*)[}"] tried at
\* position i: [name, value, end] of the match, end = 0 for no match
FieldMatchAt(s, i) ==
    LET j == WordRunEnd(s, i)
        eq == WsRunEnd(s, j + 1) + 1
        open == WsRunEnd(s, eq + 1) + 1
        close == GroupsEnd(s, {"}", "\""}, open + 1)
    IN
    IF /\ j >= i
       /\ eq <= Len(s) /\ Char(s, eq) = "="
       /\ open <= Len(s) /\ Char(s, open) \in {"{", "\""}
       /\ close <= Len(s) /\ Char(s, close) \in {"}", "\""}
    THEN [name |-> SubSeq(s, i, j), value |-> SubSeq(s, open + 1, close - 1), end |-> close]
    ELSE [name |-> "", value |-> "", end |-> 0]

\* re.sub(r'\{([^{}]*)\}', r'\1', s): the braces of every innermost group go
RECURSIVE StripBraces(_)
StripBraces(s) ==
    LET n == FirstOf(s, {"{"}, 1) IN
    IF n = 0 THEN s
    ELSE LET q == FirstOf(s, {"{", "}"}, n + 1) IN
         IF q > 0 /\ Char(s, q) = "}"
         THEN SubSeq(s, 1, n - 1) \o SubSeq(s, n + 1, q - 1) \o StripBraces(SliceFrom(s, q))
         ELSE SubSeq(s, 1, n) \o StripBraces(SliceFrom(s, n))

\* the value stored for a field, with the braces inside it kept
FieldValue_KeepBraces(raw) == Strip(raw)

\* the value stored for a field
FieldValue(raw) == StripBraces(Strip(raw))

\* `for field_match in re.finditer(field_pattern, fields_str)` from position i.
\* A match starts at a word character; when none starts at the first
\* character of a run of word characters, none starts inside the run.
RECURSIVE BibFields(_, _, _)
BibFields(s, fields, i) ==
    LET w == FirstWord(s, i) IN
    IF w = 0 THEN fields
    ELSE LET m == FieldMatchAt(s, w) IN
         IF m.end > 0
         THEN BibFields(s, Put(fields, Lower(m.name), FieldValue(m.value)), m.end + 1)
         ELSE BibFields(s, fields, WordRunEnd(s, w) + 1)

\* the entry pattern @(\w+)\s*\{\s*([^,]+)\s*,\s*((?:[^{}]|\{[^{}]*\})*)\}
\* tried at position i: [type, key, body, end], end = 0 for no match.  The
\* key group and the blanks around it are the text up to the first comma,
\* which must not be empty.
EntryMatchAt(s, i) ==
    LET j == WordRunEnd(s, i + 1)
        open == WsRunEnd(s, j + 1) + 1
        comma == FirstOf(s, {","}, open + 1)
        close == GroupsEnd(s, {"}"}, comma + 1)
    IN
    IF /\ Char(s, i) = "@"
       /\ j >= i + 1
       /\ open <= Len(s) /\ Char(s, open) = "{"
       /\ comma > open + 1
       /\ close <= Len(s) /\ Char(s, close) = "}"
    THEN [type |-> SubSeq(s, i + 1, j), key |-> SubSeq(s, open + 1, comma - 1),
          body |-> SubSeq(s, comma + 1, close - 1), end |-> close]
    ELSE [type |-> "", key |-> "", body |-> "", end |-> 0]

\* `for match in matches` of parse_bibtex from position i
RECURSIVE BibEntries(_, _, _)
BibEntries(s, acc, i) ==
    LET a == FirstOf(s, {"@"}, i) IN
    IF a = 0 THEN acc
    ELSE LET m == EntryMatchAt(s, a) IN
         IF m.end > 0
         THEN BibEntries(s,
                  Append(acc, [type |-> Lower(m.type), key |-> Strip(m.key),
                               fields |-> BibFields(m.body, EmptyDict, 1)]),
                  m.end + 1)
         ELSE BibEntries(s, acc, a + 1)

\* the try block of parse_bibtex on the text of the file
parse_bibtex(c) == Ok(BibEntries(c, <<>>, 1))

-----------------------------------------------------------------------------
(* parse_reference_file                                                    *)

\* a parser's except clause: the message reported and the empty list
\* returned, or the entries of the try block
Caught(label, got) ==
    IF got.exc # ""
    THEN [entries |-> <<>>, msgs |-> <<"Error parsing " \o label \o " file: " \o got.exc>>]
    ELSE [entries |-> got.val, msgs |-> <<>>]

\* parse_reference_file(self, filepath): the entries returned and the
\* messages reported, for a file with suffix ext holding the text c, which
\* json.load reads as d
parse_reference_file(ext, c, d) ==
    IF ext = ".bib" THEN Caught("BibTeX", parse_bibtex(c))
    ELSE IF ext = ".ris" THEN Caught("RIS", parse_ris(c))
    ELSE IF ext = ".json" THEN Caught("JSON", parse_json(d))
    ELSE IF ext \in {".enw", ".endnote"} THEN Caught("EndNote", parse_endnote(c))
    ELSE [entries |-> <<>>, msgs |-> <<"Unsupported file format: " \o ext>>]

-----------------------------------------------------------------------------
(* self.options and the variables a specification leaves alone             *)

\* the defaults of add_arguments
DefaultOptions ==
    [bibfile |-> "", backend |-> "inkscape", format |-> "apa", font_size |-> 11,
     max_width |-> 600, add_box |-> TRUE, numbering_style |-> "numeric",
     sort_order |-> "appearance", hanging_indent |-> TRUE, indent_size |-> 20,
     title_text |-> "References", show_title |-> TRUE, update_existing |-> FALSE]

NumberingStyles ==
    {"numeric", "numeric_dot", "numeric_paren", "bullet", "dash", "asterisk",
     "symbols", "alpha", "roman", "none"}

markerVars == <<index, marker>>
sortVars == <<entries, sorted_entries>>
wrapVars == <<text, max_width_chars, first_line_indent, subsequent_indent, lines>>
formatVars == <<entry, formatted>>
parseVars == <<extension, content, data, fixture, parsed, messages>>
runVars == <<file_exists, document, formatted_refs, calls, debug_log, uncaught>>
authorVars == <<author_names, author_field, joined>>
\* what no action outside format_authors writes
keptVars == <<document_before, authorVars>>

NoMarker == index = 1 /\ marker = ""
NoSort == entries = <<>> /\ sorted_entries = <<>>
NoWrap ==
    /\ text = ""
    /\ max_width_chars = 0
    /\ first_line_indent = 0
    /\ subsequent_indent = 0
    /\ lines = <<>>
NoFormat == entry = [type |-> "", key |-> "", fields |-> EmptyDict] /\ formatted = Ok("")
NoParse ==
    /\ extension = ""
    /\ content = ""
    /\ data = JNull
    /\ fixture = <<>>
    /\ parsed = <<>>
    /\ messages = <<>>
NoRun ==
    /\ file_exists = FALSE
    /\ document = <<>>
    /\ formatted_refs = <<>>
    /\ calls = <<>>
    /\ debug_log = <<>>
    /\ uncaught = ""
    /\ document_before = <<>>
NoAuthors == author_names = <<>> /\ author_field = "" /\ joined = Ok("")

-----------------------------------------------------------------------------
(* Specification SpecMarker: get_numbering_marker on every index and style *)

MaxIndex == 28

InitMarker ==
    /\ pc = "start"
    /\ options \in {[DefaultOptions EXCEPT !.numbering_style = st] :
                        st \in NumberingStyles \cup {"letters"}}
    /\ index \in 1..MaxIndex
    /\ marker = ""
    /\ NoSort /\ NoWrap /\ NoFormat /\ NoParse /\ NoRun /\ NoAuthors

GetNumberingMarker ==
    /\ pc = "start"
    /\ marker' = get_numbering_marker(options.numbering_style, index)
    /\ pc' = "done"
    /\ UNCHANGED <<keptVars, runVars, options, index, sortVars, wrapVars, formatVars, parseVars>>

NextMarker == GetNumberingMarker

SpecMarker == InitMarker /\ [][NextMarker]_vars

\* the decimal numeral of n, 10 <= n <= 99, digit by digit
TwoDigits(n) == Char("0123456789", (n \div 10) + 1) \o Char("0123456789", (n % 10) + 1)

\* C8: with numbering style 'alpha', marker(i) is the i-th lowercase letter
\* followed by '.' for i in 1..26 and '[i]' for i >= 27; marker(27) = '[27]'.
C8_AlphaMarker ==
    (pc = "done" /\ options.numbering_style = "alpha") =>
        /\ index <= 26 => marker = Char("abcdefghijklmnopqrstuvwxyz", index) \o "."
        /\ index >= 27 => marker = "[" \o TwoDigits(index) \o "]"
        /\ index = 1 => marker = "a."
        /\ index = 26 => marker = "z."
        /\ index = 27 => marker = "[27]"

C8_Witness ==
    /\ pc = "done"
    /\ options.numbering_style = "alpha"
    /\ index = 27
    /\ marker = "[27]"

\* the symbol table and the numerals i..xx as the claim lists them
C9_SymbolTable == <<"*", "+", "#", "$", "%", "|", "**", "++", "##">>

C9_Numerals ==
    <<"i", "ii", "iii", "iv", "v", "vi", "vii", "viii", "ix", "x", "xi", "xii",
      "xiii", "xiv", "xv", "xvi", "xvii", "xviii", "xix", "xx">>

C9_Bracketed(n) == "[" \o (IF n < 10 THEN Char("0123456789", n + 1) ELSE TwoDigits(n)) \o "]"

\* C9: 'symbols' gives the i-th of the 9 symbols and '[i]' from 10 on; 'roman'
\* gives the numerals i..xx followed by '.' and '[i]' from 21 on; 'none' gives
\* the empty string; an unrecognized style gives '[i]'.
C9_TableMarkers ==
    pc = "done" =>
        /\ options.numbering_style = "symbols" =>
              /\ index <= 9 => marker = C9_SymbolTable[index]
              /\ index >= 10 => marker = C9_Bracketed(index)
              /\ index = 3 => marker = DDAGGER
              /\ index = 10 => marker = "[10]"
        /\ options.numbering_style = "roman" =>
              /\ index <= 20 => marker = C9_Numerals[index] \o "."
              /\ index >= 21 => marker = C9_Bracketed(index)
              /\ index = 1 => marker = "i."
              /\ index = 21 => marker = "[21]"
        /\ options.numbering_style = "none" => marker = ""
        /\ options.numbering_style \notin NumberingStyles => marker = C9_Bracketed(index)

C9_Witness ==
    /\ pc = "done"
    /\ options.numbering_style = "symbols"
    /\ index = 10
    /\ marker = "[10]"

-----------------------------------------------------------------------------
(* Specification SpecSort: sort_entries on every short list of entries     *)

MaxEntries == 3

\* entries with equal keys (after lower-casing), missing fields, a year that
\* is no number and the year "9999"
SortPool ==
    { [type |-> "article", key |-> "k1",
       fields |-> [author |-> "Smith", year |-> "2020", title |-> "Beta"]],
      [type |-> "article", key |-> "k2",
       fields |-> [author |-> "smith", year |-> "1999", title |-> "alpha"]],
      [type |-> "book", key |-> "k3", fields |-> [title |-> "Alpha"]],
      [type |-> "book", key |-> "k4", fields |-> [author |-> "Adams", year |-> "n.d."]],
      [type |-> "misc", key |-> "k5",
       fields |-> [author |-> "adams", year |-> "9999", title |-> "beta"]] }

SortOrders == {"appearance", "author", "year", "title", "date"}

SeqsUpTo(S, n) == UNION {[1..m -> S] : m \in 0..n}

InitSort ==
    /\ pc = "start"
    /\ options \in {[DefaultOptions EXCEPT !.sort_order = o] : o \in SortOrders}
    /\ entries \in SeqsUpTo(SortPool, MaxEntries)
    /\ sorted_entries = <<>>
    /\ NoMarker /\ NoWrap /\ NoFormat /\ NoParse /\ NoRun /\ NoAuthors

SortEntries ==
    /\ pc = "start"
    /\ sorted_entries' = sort_entries(options.sort_order, entries)
    /\ pc' = "done"
    /\ UNCHANGED <<keptVars, runVars, options, entries, markerVars, wrapVars, formatVars, parseVars>>

NextSort == SortEntries

SpecSort == InitSort /\ [][NextSort]_vars

\* the sort key of section 4.2 of the specification
C6_Key(order, x) ==
    IF order = "author"
    THEN (IF "author" \in DOMAIN x.fields THEN Lower(x.fields["author"]) ELSE "")
    ELSE IF order = "year"
    THEN (IF "year" \in DOMAIN x.fields THEN x.fields["year"] ELSE "9999")
    ELSE (IF "title" \in DOMAIN x.fields THEN Lower(x.fields["title"]) ELSE "")

\* p maps each position of `out` to the position of `inp` its entry came from:
\* a permutation under which keys never decrease and equal keys keep their
\* input order
C6_StableUnder(order, inp, out, p) ==
    /\ \A i, j \in DOMAIN p : i # j => p[i] # p[j]
    /\ \A i \in DOMAIN out : out[i] = inp[p[i]]
    /\ \A i, j \in DOMAIN out :
          i < j => /\ ~StrLess(C6_Key(order, out[j]), C6_Key(order, out[i]))
                   /\ C6_Key(order, out[i]) = C6_Key(order, out[j]) => p[i] < p[j]

\* C6: for orders author, year and title the result is a permutation of the
\* input with non-decreasing keys in which equal keys keep their input order;
\* for appearance and any unrecognized order it is the input unchanged.
C6_StableSort ==
    pc = "done" =>
        IF options.sort_order \in {"author", "year", "title"}
        THEN /\ Len(sorted_entries) = Len(entries)
             /\ \E p \in [1..Len(entries) -> 1..Len(entries)] :
                   C6_StableUnder(options.sort_order, entries, sorted_entries, p)
        ELSE sorted_entries = entries

\* two entries with equal keys and a smaller one after them were sorted
C6_Witness ==
    /\ pc = "done"
    /\ options.sort_order = "author"
    /\ Len(entries) = 3
    /\ entries[1].key = "k1" /\ entries[2].key = "k2" /\ entries[3].key = "k4"
    /\ sorted_entries = <<entries[3], entries[1], entries[2]>>

\* C7: sort by year places every entry without a year field after every entry
\* that has one.
C7_MissingYearLast ==
    (pc = "done" /\ options.sort_order = "year") =>
        \A i, j \in DOMAIN sorted_entries :
            ("year" \notin DOMAIN sorted_entries[i].fields
                /\ "year" \in DOMAIN sorted_entries[j].fields) => j < i

-----------------------------------------------------------------------------
(* Specification SpecWrap: wrap_text on every short text and small width   *)

MaxPieces == 4
MaxWidth == 6

\* texts are built from these pieces: words of one to three characters, runs
\* of blanks and tabs, and words that grow by concatenation
WrapPieces == {"a ", "bbb ", "\t ", "cc"}

WrapTexts == {Concat(ps) : ps \in SeqsUpTo(WrapPieces, MaxPieces)}

\* <<first_line_indent, subsequent_indent>>
WrapIndents == {<<0, 0>>, <<0, 2>>, <<1, 0>>, <<2, 1>>}

InitWrap ==
    /\ pc = "start"
    /\ options = DefaultOptions
    /\ text \in WrapTexts
    /\ max_width_chars \in 0..MaxWidth
    /\ \E ind \in WrapIndents : first_line_indent = ind[1] /\ subsequent_indent = ind[2]
    /\ lines = <<>>
    /\ NoMarker /\ NoSort /\ NoFormat /\ NoParse /\ NoRun /\ NoAuthors

WrapText ==
    /\ pc = "start"
    /\ lines' = wrap_text(text, max_width_chars, first_line_indent, subsequent_indent)
    /\ pc' = "done"
    /\ UNCHANGED <<keptVars, runVars, options, text, max_width_chars, first_line_indent, subsequent_indent,
                   markerVars, sortVars, formatVars, parseVars>>

NextWrap == WrapText

SpecWrap == InitWrap /\ [][NextWrap]_vars

\* s holds no whitespace character
RECURSIVE C3_IsToken(_)
C3_IsToken(s) ==
    s = "" \/ (~IsSpace(Char(s, 1)) /\ C3_IsToken(SliceFrom(s, 1)))

\* C3: each line of wrap(text, W, 0, 0) has at most W characters, unless it
\* is a single token longer than W.
C3_LineWidth ==
    (pc = "done" /\ first_line_indent = 0 /\ subsequent_indent = 0) =>
        \A i \in DOMAIN lines :
            \/ Len(lines[i]) <= max_width_chars
            \/ C3_IsToken(lines[i]) /\ Len(lines[i]) > max_width_chars

\* a break was needed: two lines, the first of two words
C3_Witness ==
    /\ pc = "done"
    /\ first_line_indent = 0 /\ subsequent_indent = 0
    /\ max_width_chars = 5
    /\ text = "a bbb a cc"
    /\ lines = <<"a bbb", "a cc">>

\* runs of whitespace replaced by one blank, character by character
RECURSIVE C4_Collapse(_)
C4_Collapse(s) ==
    IF s = "" THEN ""
    ELSE IF IsSpace(Char(s, 1))
         THEN (IF Len(s) > 1 /\ IsSpace(Char(s, 2)) THEN "" ELSE " ")
              \o C4_Collapse(SliceFrom(s, 1))
         ELSE Char(s, 1) \o C4_Collapse(SliceFrom(s, 1))

\* the whitespace-normalized text
C4_Normalized(s) == C4_Collapse(Strip(s))

\* C4: the lines joined with single blanks are the whitespace-normalized
\* text, no line is empty, and a blank or empty text gives no line.
C4_Reconstructs ==
    pc = "done" =>
        /\ Join(" ", lines) = C4_Normalized(text)
        /\ \A i \in DOMAIN lines : lines[i] # ""
        /\ C4_Normalized(text) = "" => lines = <<>>

C4_Witness ==
    /\ pc = "done"
    /\ text = "\t a \t cc"
    /\ max_width_chars = 2
    /\ lines = <<"a", "cc">>

\* the length of the first k tokens joined with single blanks
RECURSIVE C5_JoinedLen(_, _)
C5_JoinedLen(tokens, k) ==
    IF k = 0 THEN 0
    ELSE Len(tokens[k]) + (IF k > 1 THEN 1 ELSE 0) + C5_JoinedLen(tokens, k - 1)

\* how many tokens the next line takes under `budget`: the longest prefix
\* that fits, and one token when not even the first fits
C5_Take(tokens, budget) ==
    LET fit == {k \in 1..Len(tokens) : C5_JoinedLen(tokens, k) <= budget} IN
    IF fit = {} THEN 1 ELSE CHOOSE k \in fit : \A m \in fit : m <= k

\* the greedy layout: the first line under `budget`, the others under `later`
RECURSIVE C5_Greedy(_, _, _)
C5_Greedy(tokens, budget, later) ==
    IF tokens = <<>> THEN <<>>
    ELSE LET k == C5_Take(tokens, budget) IN
         <<Join(" ", SubSeq(tokens, 1, k))>>
            \o C5_Greedy(SubSeq(tokens, k + 1, Len(tokens)), later, later)

\* C5: the first line is the longest prefix of tokens that fits in
\* maxWidthChars - firstLineIndentChars, every later line the longest run
\* that fits in maxWidthChars - continuationIndentChars, and a token that
\* fits in neither stands alone.
C5_GreedyBudgets ==
    pc = "done" =>
        lines = C5_Greedy(SplitWs(text), max_width_chars - first_line_indent,
                          max_width_chars - subsequent_indent)

\* the two budgets differ and both are used: the first line has 5 - 2 = 3
\* characters, where "a bbb" does not fit, the later ones 5 - 1 = 4, where
\* "bbb a" does not fit and "a cc" does
C5_Witness ==
    /\ pc = "done"
    /\ first_line_indent = 2 /\ subsequent_indent = 1
    /\ max_width_chars = 5
    /\ text = "a bbb a cc"
    /\ lines = <<"a", "bbb", "a cc">>

-----------------------------------------------------------------------------
(* Specification SpecFormat: format_entry_python on a pool of entries      *)

Styles ==
    {"apa", "apa7", "mla", "chicago", "harvard", "ieee", "vancouver", "ama", "acs",
     "nature"}

GivenNames == {"Jane", "Bob"}
Surnames == {"Smith", "Lee"}

\* articles with a single two-token author and the seven article fields,
\* over several values of each field
FullArticles ==
    { [type |-> "article", key |-> "k",
       fields |-> [author |-> g \o " " \o l, year |-> y, title |-> t, journal |-> j,
                   volume |-> v, number |-> "2", pages |-> pg]] :
      g \in GivenNames, l \in Surnames, y \in {"2020", "1999"},
      t \in {"A Study", "Notes"}, j \in {"J. Sci", "Acta"}, v \in {"5", "12"},
      pg \in {"10-20", "7"} }

AllFields ==
    [author |-> "Jane Smith", year |-> "2020", title |-> "A Study", journal |-> "J. Sci",
     volume |-> "5", number |-> "2", pages |-> "10-20", publisher |-> "ACM Press"]

\* every subset of the eight fields, for an article and for two other types
PartialEntries ==
    { [type |-> ty, key |-> "k", fields |-> [f \in D |-> AllFields[f]]] :
      ty \in {"article", "book", "inproceedings"}, D \in SUBSET DOMAIN AllFields }

\* author strings with one to seven authors, both separators, a one-token
\* name, a middle name, and strings that hold separators only
AuthorStrings ==
    {"Plato", "Jane Smith and John Q. Doe", "Smith, Jane",
     "Jane Smith, John Doe, Ann Lee", "A B and C D and E F and G H and I J and K L and M N",
     ",", " and ", ""}

AuthorVariants ==
    { [type |-> ty, key |-> "k", fields |-> [AllFields EXCEPT !.author = a]] :
      ty \in {"article", "book"}, a \in AuthorStrings }

FormatPool == FullArticles \cup PartialEntries \cup AuthorVariants

InitFormat ==
    /\ pc = "start"
    /\ options \in {[DefaultOptions EXCEPT !.format = st] : st \in Styles \cup {"turabian"}}
    /\ entry \in FormatPool
    /\ formatted = Ok("")
    /\ NoMarker /\ NoSort /\ NoWrap /\ NoParse /\ NoRun /\ NoAuthors

FormatEntry ==
    /\ pc = "start"
    /\ formatted' = format_entry_python(entry, options.format)
    /\ pc' = "done"
    /\ UNCHANGED <<keptVars, runVars, options, entry, markerVars, sortVars, wrapVars, parseVars>>

NextFormat == FormatEntry

SpecFormat == InitFormat /\ [][NextFormat]_vars

\* the entry of the examples of section 8
ExampleEntry ==
    [type |-> "article", key |-> "k",
     fields |-> [author |-> "Jane Smith", year |-> "2020", title |-> "A Study",
                 journal |-> "J. Sci", volume |-> "5", number |-> "2",
                 pages |-> "10-20"]]

SevenFields == {"author", "year", "title", "journal", "volume", "number", "pages"}

\* C1: the example entry formatted as 'apa' is
\* 'Smith, J. (2020). A Study. J. Sci, 5(2), 10-20.'; an article with a single
\* two-token author and the seven fields present gives
\* '<Last>, <initial>. (<year>). <title>. <journal>, <volume>(<number>), <pages>.'
C1_ApaArticle ==
    (pc = "done" /\ options.format = "apa") =>
        /\ entry = ExampleEntry =>
              formatted = Ok("Smith, J. (2020). A Study. J. Sci, 5(2), 10-20.")
        /\ (entry.type = "article" /\ SevenFields \subseteq DOMAIN entry.fields) =>
              \A g \in GivenNames, l \in Surnames :
                  entry.fields["author"] = g \o " " \o l =>
                      formatted =
                          Ok(l \o ", " \o Char(g, 1) \o ". (" \o entry.fields["year"]
                             \o "). " \o entry.fields["title"] \o ". "
                             \o entry.fields["journal"] \o ", " \o entry.fields["volume"]
                             \o "(" \o entry.fields["number"] \o "), "
                             \o entry.fields["pages"] \o ".")

C1_Witness ==
    /\ pc = "done"
    /\ options.format = "apa"
    /\ entry = ExampleEntry
    /\ formatted.val = "Smith, J. (2020). A Study. J. Sci, 5(2), 10-20."

\* C2: the example entry formatted as 'ieee' is
\* 'Smith J, "A Study," J. Sci, vol. 5, no. 2, pp. 10-20, 2020.'
C2_IeeeArticle ==
    (pc = "done" /\ options.format = "ieee" /\ entry = ExampleEntry) =>
        formatted = Ok("Smith J, \"A Study,\" J. Sci, vol. 5, no. 2, pp. 10-20, 2020.")

C2_Witness ==
    /\ pc = "done"
    /\ options.format = "ieee"
    /\ entry = ExampleEntry
    /\ formatted.exc = ""
    /\ StartsWith(formatted.val, "Smith J, \"A Study,\"")

\* a clause built around an empty value: a lone full stop, or a quoted
\* clause holding only its punctuation
EmptyClauses == {".", "\".\"", "\",\""}

\* C11: in every style, a field absent from the entry has its clause omitted
\* from the formatted string: no placeholder text stands in for a missing year
\* and no empty punctuated or quoted clause stands in for a missing title.
C11_MissingClauseOmitted ==
    (pc = "done" /\ formatted.exc = "") =>
        /\ "year" \notin DOMAIN entry.fields => ~Contains(formatted.val, "n.d.")
        /\ "title" \notin DOMAIN entry.fields =>
              \A i \in DOMAIN SplitWs(formatted.val) :
                  SplitWs(formatted.val)[i] \notin EmptyClauses

\* C12: format_entry_python never raises: for every style and every entry of
\* the pool (any subset of the fields, author strings that are empty or hold
\* separators only) it returns a string.
C12_NeverRaises == pc = "done" => formatted.exc = ""

\* C13: the branch is chosen by entry type alone: the output for an article
\* never holds the publisher, and the output for any other type never holds
\* the journal, the volume or the pages, whichever fields are present.
C13_BranchByTypeAlone ==
    (pc = "done" /\ formatted.exc = "") =>
        IF entry.type = "article"
        THEN "publisher" \in DOMAIN entry.fields =>
                 ~Contains(formatted.val, entry.fields["publisher"])
        ELSE \A f \in {"journal", "volume", "pages"} \cap DOMAIN entry.fields :
                 ~Contains(formatted.val, entry.fields[f])

\* C14: a style outside the ten supported ones, and the aliases 'apa7' and
\* 'harvard', give the same string as 'apa', author rendering included.
C14_FallsBackToApa ==
    (pc = "done" /\ options.format \notin (Styles \ {"apa7", "harvard"})) =>
        formatted = format_entry_python(entry, "apa")

\* C14 (amended): 'apa7' and 'harvard' give the same string as 'apa'; a style
\* outside the ten supported ones gives the 'apa' string with its author part
\* replaced by the authors joined with ', ', unmodified.
C14_ApaComposerFallback ==
    pc = "done" =>
        /\ options.format \in {"apa7", "harvard"} =>
              formatted = format_entry_python(entry, "apa")
        /\ options.format \notin Styles =>
              LET author_str == Get(entry.fields, "author", "")
                  own == Join(", ", AuthorList(author_str))
                  apa_authors == format_authors(author_str, "apa").val
                  apa == format_entry_python(entry, "apa").val
              IN formatted = Ok(own \o SliceFrom(apa, Len(apa_authors)))

C14_Witness ==
    /\ pc = "done"
    /\ options.format \notin Styles
    /\ entry.type = "article"
    /\ Get(entry.fields, "author", "") = "Jane Smith and John Q. Doe"
    /\ StartsWith(formatted.val, "Jane Smith, John Q. Doe (2020). A Study. J. Sci")

-----------------------------------------------------------------------------
(* Specification SpecAuthors: format_authors on author fields written from *)
(* up to MaxAuthors names, in every style                                  *)

MaxAuthors == 3

\* the names an author field is written from: one token, two tokens, three
WrittenNames == {"Plato", "Jane Smith", "John Q. Doe"}

\* the two separators line 474 accepts between authors
AuthorSeparators == {" and ", ", "}

InitAuthors ==
    /\ pc = "start"
    /\ options \in {[DefaultOptions EXCEPT !.format = s] : s \in Styles \cup {"turabian"}}
    /\ author_names \in SeqsUpTo(WrittenNames, MaxAuthors)
    /\ author_field \in {Join(sep, author_names) : sep \in AuthorSeparators}
    /\ joined = Ok("")
    /\ NoMarker /\ NoSort /\ NoWrap /\ NoFormat /\ NoParse /\ NoRun

FormatAuthors ==
    /\ pc = "start"
    /\ joined' = format_authors(author_field, options.format)
    /\ pc' = "done"
    /\ UNCHANGED <<document_before, options, author_names, author_field, markerVars, sortVars, wrapVars,
                   formatVars, parseVars, runVars>>

NextAuthors == FormatAuthors

SpecAuthors == InitAuthors /\ [][NextAuthors]_vars

\* the styles of the branch at lines 477-494
ApaFamily == {"apa", "apa7", "chicago", "harvard"}

\* the "Last, F. M." rendering of each written name, spelled out by hand
C21_Rendered(name) ==
    CASE name = "Plato" -> "Plato"
      [] name = "Jane Smith" -> "Smith, J."
      [] name = "John Q. Doe" -> "Doe, J. Q."

\* the rendered names up to the k-th, each followed by ", "
RECURSIVE C21_Listed(_, _)
C21_Listed(names, k) ==
    IF k = 0 THEN ""
    ELSE C21_Listed(names, k - 1) \o C21_Rendered(names[k]) \o ", "

\* C21: in the APA/Chicago/Harvard family format_authors joins the rendered
\* names by count: one author gives the name alone, two give 'A & B', three
\* or more give all but the last each followed by ', ', then '& ' and the
\* last; a single-token name is passed through unchanged.
C21_JoinByCount ==
    (pc = "done" /\ options.format \in ApaFamily /\ author_names # <<>>) =>
        LET n == Len(author_names) IN
        /\ joined.exc = ""
        /\ n = 1 => joined.val = C21_Rendered(author_names[1])
        /\ n = 2 => joined.val = C21_Rendered(author_names[1]) \o " & "
                                  \o C21_Rendered(author_names[2])
        /\ n > 2 => joined.val = C21_Listed(author_names, n - 1) \o "& "
                                  \o C21_Rendered(author_names[n])
        /\ author_names = <<"Plato">> => joined.val = "Plato"

\* three authors, the first a single token, joined in the chicago style
C21_Witness ==
    /\ pc = "done"
    /\ options.format = "chicago"
    /\ author_names = <<"Plato", "Jane Smith", "John Q. Doe">>
    /\ author_field = "Plato, Jane Smith, John Q. Doe"
    /\ joined = Ok("Plato, Smith, J., & Doe, J. Q.")

-----------------------------------------------------------------------------
(* Specification SpecParse: parse_reference_file on files written from a   *)
(* few records, well-formed and malformed, in each of the four formats     *)

MaxRecords == 2

\* a record of a fixture: its text (or its CSL-JSON item), whether it is
\* well-formed, and the Entry its parser returns for it in a file of
\* well-formed records
Rec(txt, item, good, expect) ==
    [text |-> txt, item |-> item, good |-> good, expect |-> expect]

NoEntry == [type |-> "", key |-> "", fields |-> EmptyDict]

EndnoteRecs ==
    { Rec("%0 Journal Article\n%A Jane Smith\n%A John Doe\n%T A Study\n%D 2020\n%J J. Sci\n%V 5\n%N 2\n%P 10-20",
          JNull, TRUE,
          [type |-> "journal article", key |-> "A Study",
           fields |-> [author |-> "Jane Smith and John Doe", title |-> "A Study",
                       year |-> "2020", journal |-> "J. Sci", volume |-> "5",
                       number |-> "2", pages |-> "10-20"]]),
      Rec("%0 Book\n%T Notes on a Long Title of Things\n%I ACM Press\n%D 1999 May\n%X an abstract",
          JNull, TRUE,
          [type |-> "book", key |-> "Notes on a Long Titl",
           fields |-> [title |-> "Notes on a Long Title of Things",
                       publisher |-> "ACM Press", year |-> "1999"]]),
      Rec("%0 Report\n%T\n%D 2020", JNull, TRUE,
          [type |-> "report", key |-> "", fields |-> [title |-> "", year |-> "2020"]]),
      Rec("%T Lost\n%", JNull, FALSE, NoEntry),
      Rec("no tag on this line", JNull, FALSE, NoEntry) }

RisRecs ==
    { Rec("TY  - JOUR\nAU  - Smith, Jane\nAU  - Doe, John\nTI  - A Study\nPY  - 2020/05/01\nJO  - J. Sci\nVL  - 5\nIS  - 2\nSP  - 10\nEP  - 20",
          JNull, TRUE,
          [type |-> "jour", key |-> "A Study",
           fields |-> [author |-> "Smith, Jane and Doe, John", title |-> "A Study",
                       year |-> "2020", journal |-> "J. Sci", volume |-> "5",
                       number |-> "2", pages |-> "10-20"]]),
      Rec("TY  - BOOK\nTI  - Notes\nPB  - ACM Press\nPY  - 1999\nDO  - 10.1/x",
          JNull, TRUE,
          [type |-> "book", key |-> "Notes",
           fields |-> [title |-> "Notes", publisher |-> "ACM Press", year |-> "1999"]]),
      Rec("TY  - RPRT\nTI  - \nPY  - 2020", JNull, TRUE,
          [type |-> "rprt", key |-> "", fields |-> [title |-> "", year |-> "2020"]]),
      Rec("TY  - JOUR\nTI  - Review\nEP  - 47\nSP  - 31\nPY  - 2021", JNull, TRUE,
          [type |-> "jour", key |-> "Review",
           fields |-> [title |-> "Review", pages |-> "31", year |-> "2021"]]),
      Rec("a line without a tag\nTI: Lost", JNull, FALSE, NoEntry) }

BibRecs ==
    { Rec("@article{smith2020,\n  author = {Jane Smith},\n  title = {A Study},\n  Year = \"2020\",\n  journal = {J. Sci}\n}",
          JNull, TRUE,
          [type |-> "article", key |-> "smith2020",
           fields |-> [author |-> "Jane Smith", title |-> "A Study", year |-> "2020",
                       journal |-> "J. Sci"]]),
      Rec("@Book{doe99, title={Notes}, publisher={ACM Press}, year={1999}, Month={may}}",
          JNull, TRUE,
          [type |-> "book", key |-> "doe99",
           fields |-> [title |-> "Notes", publisher |-> "ACM Press", year |-> "1999",
                       month |-> "may"]]),
      Rec("@report{ , title={}, year={2020}}", JNull, TRUE,
          [type |-> "report", key |-> "", fields |-> [title |-> "", year |-> "2020"]]),
      Rec("@misc{lost, title={Unclosed", JNull, FALSE, NoEntry),
      Rec("@misc{nocomma title={Lost}}", JNull, FALSE, NoEntry) }

JsonRecs ==
    { Rec("", JDict([id |-> JStrV("smith2020"), type |-> JStrV("article-journal"),
                     author |-> JList(<<JDict([family |-> JStrV("Smith"),
                                               given |-> JStrV("Jane")]),
                                        JDict([literal |-> JStrV("WHO")])>>),
                     title |-> JStrV("A Study"), volume |-> JNum(5),
                     issue |-> JStrV("2"), page |-> JStrV("10-20"),
                     issued |-> JDict([x \in {"date-parts"} |->
                                          JList(<<JList(<<JNum(2020), JNum(5)>>)>>)])]),
          TRUE,
          [type |-> "article", key |-> "smith2020",
           fields |-> [author |-> "Jane Smith and WHO", title |-> "A Study",
                       year |-> "2020", volume |-> "5", number |-> "2",
                       pages |-> "10-20"]]),
      Rec("", JDict([type |-> JStrV("book"), title |-> JStrV("Notes"),
                     publisher |-> JStrV("ACM Press"), issued |-> JStrV("1999-05"),
                     DOI |-> JStrV("10.1/x")]),
          TRUE,
          [type |-> "book", key |-> "Notes",
           fields |-> [title |-> "Notes", publisher |-> "ACM Press", year |-> "1999"]]),
      Rec("", JDict([id |-> JStrV(""), type |-> JStrV("report"),
                     author |-> JList(<<JDict([family |-> JStrV("Smith")])>>),
                     issued |-> JStrV("2020")]),
          TRUE,
          [type |-> "report", key |-> "", fields |-> [author |-> "", year |-> "2020"]]),
      Rec("", JDict([title |-> JStrV("Lost"), author |-> JNum(5)]), FALSE, NoEntry),
      Rec("", JStrV("Lost author"), FALSE, NoEntry),
      Rec("", JDict([title |-> JStrV("Lost"),
                     issued |-> JDict([x \in {"date-parts"} |-> JList(<<>>)])]),
          FALSE, NoEntry) }

FixtureRecs(ext) ==
    IF ext = ".bib" THEN BibRecs
    ELSE IF ext = ".ris" THEN RisRecs
    ELSE IF ext = ".json" THEN JsonRecs
    ELSE EndnoteRecs

\* the text of a file written from the records: BibTeX and EndNote records
\* stand a blank line apart, every RIS record ends with its ER tag
FileText(ext, recs) ==
    IF ext = ".json" THEN ""
    ELSE IF ext = ".ris"
         THEN Concat([i \in 1..Len(recs) |-> recs[i].text \o "\nER  - \n"])
    ELSE Join("\n\n", [i \in 1..Len(recs) |-> recs[i].text])

\* what json.load returns for a CSL-JSON file written from the records
FileData(ext, recs) ==
    IF ext = ".json" THEN JList([i \in 1..Len(recs) |-> recs[i].item]) ELSE JNull

Extensions == {".bib", ".ris", ".json", ".enw", ".endnote", ".txt"}

InitParse ==
    /\ pc = "start"
    /\ options = DefaultOptions
    /\ extension \in Extensions
    /\ fixture \in SeqsUpTo(FixtureRecs(extension), MaxRecords)
    /\ content = FileText(extension, fixture)
    /\ data = FileData(extension, fixture)
    /\ parsed = <<>>
    /\ messages = <<>>
    /\ NoMarker /\ NoSort /\ NoWrap /\ NoFormat /\ NoRun /\ NoAuthors

ParseReferenceFile ==
    /\ pc = "start"
    /\ LET got == parse_reference_file(extension, content, data) IN
           /\ parsed' = got.entries
           /\ messages' = messages \o got.msgs
    /\ pc' = "done"
    /\ UNCHANGED <<keptVars, runVars, options, extension, content, data, fixture,
                   markerVars, sortVars, wrapVars, formatVars>>

NextParse == ParseReferenceFile

SpecParse == InitParse /\ [][NextParse]_vars

\* the entries of the well-formed records of a fixture, in order
RECURSIVE GoodEntries(_)
GoodEntries(recs) ==
    IF recs = <<>> THEN <<>>
    ELSE (IF Head(recs).good THEN <<Head(recs).expect>> ELSE <<>>)
         \o GoodEntries(Tail(recs))

\* C10: for each of the four parsers, when a file holds several records and
\* one of them is malformed, parse returns exactly the entries of the other,
\* well-formed records.
C10_MalformedRecordDropped ==
    (/\ pc = "done"
     /\ extension # ".txt"
     /\ Len(fixture) >= 2
     /\ \E i \in DOMAIN fixture : ~fixture[i].good) =>
        parsed = GoodEntries(fixture)

\* the eight field names of an Entry
Schema == {"author", "title", "year", "journal", "volume", "number", "pages", "publisher"}

\* C15: every Entry returned by any of the four parsers has fields within the
\* eight-field schema; input fields outside it are dropped.
C15_FieldsWithinSchema ==
    pc = "done" => \A i \in DOMAIN parsed : DOMAIN parsed[i].fields \subseteq Schema

\* C15 (amended): every Entry returned by the RIS, CSL-JSON and EndNote
\* parsers has fields within the eight-field schema; the BibTeX parser keeps
\* every field it matches under its lower-cased name, so 'Month={may}' of a
\* record is preserved as month.
C15_SchemaExceptBibtex ==
    pc = "done" =>
        /\ extension # ".bib" =>
              \A i \in DOMAIN parsed : DOMAIN parsed[i].fields \subseteq Schema
        /\ (extension = ".bib" /\ Contains(content, "Month={may}")) =>
              \E i \in DOMAIN parsed :
                  /\ "month" \in DOMAIN parsed[i].fields
                  /\ parsed[i].fields["month"] = "may"

C15_Witness ==
    /\ pc = "done"
    /\ extension = ".ris"
    /\ Contains(content, "DO  - 10.1/x")
    /\ Len(parsed) = 2
    /\ \E i \in DOMAIN parsed : parsed[i].fields["title"] = "Notes"

\* C16: every Entry returned by any of the four parsers has a non-empty key.
C16_KeyNonEmpty ==
    pc = "done" => \A i \in DOMAIN parsed : parsed[i].key # ""

\* C17: no Entry returned by any parser holds a field whose value is the
\* empty string.
C17_NoEmptyValue ==
    pc = "done" =>
        \A i \in DOMAIN parsed : \A f \in DOMAIN parsed[i].fields :
            parsed[i].fields[f] # ""

\* the value of the first line of a RIS record that carries the tag
C22_TagValue(txt, tag) ==
    Strip(SplitOnce(SplitOnce(txt, tag \o "  - ")[2], "\n")[1])

\* the RIS records of the file that have both an SP and an EP line
C22_BothTags ==
    {i \in DOMAIN fixture :
        Contains(fixture[i].text, "SP  - ") /\ Contains(fixture[i].text, "EP  - ")}

\* C22: in the RIS parser, a record that has both an SP and an EP tag yields
\* pages = '<start>-<end>' whatever the order of the two tag lines in the
\* record, and the EP value is never lost.
C22_PagesFromBothTags ==
    (pc = "done" /\ extension = ".ris") =>
        \A i \in C22_BothTags :
            \E j \in DOMAIN parsed :
                /\ Get(parsed[j].fields, "title", "") = C22_TagValue(fixture[i].text, "TI")
                /\ Get(parsed[j].fields, "pages", "") =
                       C22_TagValue(fixture[i].text, "SP") \o "-"
                       \o C22_TagValue(fixture[i].text, "EP")

-----------------------------------------------------------------------------
(* effect: one run of the extension, stage by stage.  pc names the stage   *)
(* the run is about to enter; "halted" is a return after an error message, *)
(* "aborted" an exception nothing caught, "done" the normal end.           *)
(* A group of the drawing is modelled by its id, whether it holds the      *)
(* background box, and its text lines in order (text, is_title, is_first    *)
(* and the pixel indent of the line); coordinates and styles are left out. *)

\* find_existing_references: the position in the document of the first
\* group whose id starts with 'references', or 0 for None
find_existing_references(doc) ==
    LET at == {i \in DOMAIN doc : StartsWith(doc[i].id, "references")} IN
    IF at = {} THEN 0 ELSE Min(at)

\* existing_group.getparent().remove(existing_group)
RemoveAt(doc, i) == SubSeq(doc, 1, i - 1) \o SubSeq(doc, i + 1, Len(doc))

\* the strings of rs that are not empty, in order
RECURSIVE NonEmpty(_)
NonEmpty(rs) ==
    IF rs = <<>> THEN <<>>
    ELSE (IF Head(rs) # "" THEN <<Head(rs)>> ELSE <<>>) \o NonEmpty(Tail(rs))

\* the loop of format_with_python on the outcomes of its calls of
\* format_entry_python: the non-empty references, or the exception the first
\* failing call raised
CollectRefs(outcomes) ==
    IF \E i \in DOMAIN outcomes : outcomes[i].exc # ""
    THEN outcomes[Min({i \in DOMAIN outcomes : outcomes[i].exc # ""})]
    ELSE Ok(NonEmpty([i \in DOMAIN outcomes |-> outcomes[i].val]))

\* format_with_python(self, entries) with style = self.options.format
format_with_python(es, style) ==
    CollectRefs([i \in 1..Len(es) |-> format_entry_python(es[i], style)])

\* max_chars = int(max_width / (font_size * 0.6)): the quotient is the exact
\* one, which the double computation gives for every font size from 1 to 72
\* and every width from 1 to 2000
MaxChars(opts) == (10 * opts.max_width) \div (6 * opts.font_size)

\* marker_chars, from the marker of the last reference, computed as the marker
\* of the first one
MarkerChars_FirstMarker(opts, refs) ==
    Len(get_numbering_marker(opts.numbering_style, 1)) + 1

\* marker_chars = len(sample_marker) + 1, sample_marker being the marker of
\* index len(formatted_refs)
MarkerChars(opts, refs) ==
    Len(get_numbering_marker(opts.numbering_style, Len(refs))) + 1

\* the lines of all_lines that one pass of `for i, ref in enumerate(...)` adds
RefLines(opts, refs, i) ==
    LET ref_marker == get_numbering_marker(opts.numbering_style, i)
        full_text == IF ref_marker # "" THEN ref_marker \o " " \o refs[i] ELSE refs[i]
        later == IF opts.hanging_indent /\ ref_marker # ""
                 THEN MarkerChars(opts, refs) ELSE 0
        wrapped_lines == wrap_text(full_text, MaxChars(opts), 0, later)
    IN [j \in 1..Len(wrapped_lines) |->
           [text |-> wrapped_lines[j], is_title |-> FALSE, is_first |-> j = 1,
            indent |-> IF j = 1 THEN 0
                       ELSE IF opts.hanging_indent THEN opts.indent_size ELSE 0]]

RECURSIVE RefLinesFrom(_, _, _)
RefLinesFrom(opts, refs, i) ==
    IF i > Len(refs) THEN <<>>
    ELSE RefLines(opts, refs, i) \o RefLinesFrom(opts, refs, i + 1)

\* all_lines of add_references_to_document
AllLines(opts, refs) ==
    (IF opts.show_title
     THEN <<[text |-> opts.title_text, is_title |-> TRUE, indent |-> 0]>> ELSE <<>>)
    \o RefLinesFrom(opts, refs, 1)

\* the ids get_unique_id('references') may return: 'references' and a number
\* drawn at random, never an id the document already holds
UniqueIds(doc) ==
    {"references" \o Str(n) : n \in 1..2} \ {doc[i].id : i \in DOMAIN doc}

\* the group add_references_to_document adds to the current layer
NewGroup(id, opts, refs) ==
    [id |-> id, box |-> opts.add_box, lines |-> AllLines(opts, refs)]

-----------------------------------------------------------------------------
(* Specification SpecRun: effect on a missing path, on a path that does    *)
(* not exist, and on files of every format written from well-formed and    *)
(* malformed records, for both backends                                    *)

\* the records the files of a run are written from: the book of each format
\* and one malformed record (one that makes the JSON and the EndNote parser
\* raise, one that gives the BibTeX and the RIS parser nothing); EndNote
\* files hold the article as well
RunRecs(ext) ==
    IF ext = ".txt" THEN {r \in EndnoteRecs : r.good /\ r.expect.type = "book"}
    ELSE IF ext = ".enw"
         THEN {r \in EndnoteRecs : (r.good /\ r.expect.key # "") \/ r.text = "%T Lost\n%"}
    ELSE {r \in FixtureRecs(ext) :
            \/ r.good /\ r.expect.type = "book"
            \/ r.text = "@misc{lost, title={Unclosed"
            \/ r.text = "a line without a tag\nTI: Lost"
            \/ r.item = JDict([title |-> JStrV("Lost"), author |-> JNum(5)])}

RunExtensions == {".bib", ".ris", ".json", ".enw", ".txt"}

\* the file a run is given: the path of the options, whether it exists, and
\* the records it was written from
RunFiles ==
    {[bibfile |-> "", exists |-> FALSE, ext |-> "", recs |-> <<>>],
     [bibfile |-> "gone.bib", exists |-> FALSE, ext |-> ".bib", recs |-> <<>>]}
    \cup UNION {{[bibfile |-> "refs" \o ext, exists |-> TRUE, ext |-> ext,
                   recs |-> recs] : recs \in SeqsUpTo(RunRecs(ext), MaxRecords)} :
                 ext \in RunExtensions}

\* a references group an earlier run left in the drawing
OldGroup ==
    [id |-> "references7", box |-> TRUE,
     lines |-> <<[text |-> "References", is_title |-> TRUE, indent |-> 0],
                 [text |-> "[1] (n.d.). Old.", is_title |-> FALSE, is_first |-> TRUE,
                  indent |-> 0]>>]

\* some other group of the drawing
ArtGroup == [id |-> "layer1", box |-> FALSE, lines |-> <<>>]

RunOptions ==
    {[DefaultOptions EXCEPT !.backend = b, !.numbering_style = n,
                            !.hanging_indent = h, !.sort_order = "title",
                            !.update_existing = u, !.max_width = 140] :
       b \in {"inkscape", "latex"}, n \in {"roman", "none"}, h \in BOOLEAN,
       u \in BOOLEAN}

InitRun ==
    /\ pc = "start"
    /\ \E f \in RunFiles, o \in RunOptions :
          /\ options = [o EXCEPT !.bibfile = f.bibfile]
          /\ file_exists = f.exists
          /\ extension = f.ext
          /\ fixture = f.recs
          /\ content = FileText(f.ext, f.recs)
          /\ data = FileData(f.ext, f.recs)
    /\ document \in {<<>>, <<ArtGroup, OldGroup>>}
    /\ document_before = document
    /\ (options.update_existing => document # <<>>)
    /\ parsed = <<>>
    /\ messages = <<>>
    /\ formatted_refs = <<>>
    /\ calls = <<>>
    /\ debug_log = <<>>
    /\ uncaught = ""
    /\ NoMarker /\ NoSort /\ NoWrap /\ NoFormat /\ NoAuthors

\* lines 60-65: with update_existing, the existing references group is removed
EffectRemoveExisting ==
    /\ pc = "start"
    /\ LET at == find_existing_references(document) IN
       document' = IF options.update_existing /\ at # 0
                   THEN RemoveAt(document, at) ELSE document
    /\ pc' = "check_file"
    /\ UNCHANGED <<keptVars, options, file_exists, formatted_refs, calls, debug_log, uncaught,
                   markerVars, sortVars, wrapVars, formatVars, parseVars>>

\* lines 67-71: no path, or a path that does not exist
EffectCheckFile ==
    /\ pc = "check_file"
    /\ IF options.bibfile = "" \/ ~file_exists
       THEN /\ messages' = Append(messages,
                   "Please provide a valid reference file path.\nReceived: "
                   \o options.bibfile)
            /\ pc' = "halted"
       ELSE /\ messages' = messages
            /\ pc' = "parse"
    /\ UNCHANGED <<keptVars, options, runVars, extension, content, data, fixture, parsed,
                   markerVars, sortVars, wrapVars, formatVars>>

\* lines 74-75: entries = self.parse_reference_file(file_path)
EffectParse ==
    /\ pc = "parse"
    /\ \E got \in {parse_reference_file(extension, content, data)} :
           /\ parsed' = got.entries
           /\ messages' = messages \o got.msgs
    /\ pc' = "check_entries"
    /\ UNCHANGED <<keptVars, options, runVars, extension, content, data, fixture,
                   markerVars, sortVars, wrapVars, formatVars>>

\* lines 77-79: no entries
EffectCheckEntries ==
    /\ pc = "check_entries"
    /\ IF parsed = <<>>
       THEN /\ messages' = Append(messages, "No valid reference entries found in the file.")
            /\ pc' = "halted"
       ELSE /\ messages' = messages
            /\ pc' = "sort"
    /\ UNCHANGED <<keptVars, options, runVars, extension, content, data, fixture, parsed,
                   markerVars, sortVars, wrapVars, formatVars>>

\* line 82: entries = self.sort_entries(entries)
EffectSort ==
    /\ pc = "sort"
    /\ entries' = parsed
    /\ sorted_entries' = sort_entries(options.sort_order, parsed)
    /\ pc' = "format"
    /\ UNCHANGED <<keptVars, options, runVars, markerVars, wrapVars, formatVars, parseVars>>

\* line 85: formatted_refs = self.format_with_python(entries); an exception
\* of format_entry_python is caught nowhere and ends the run
EffectFormat ==
    /\ pc = "format"
    /\ \E got \in {format_with_python(sorted_entries, options.format)} :
          IF got.exc # ""
          THEN /\ uncaught' = got.exc
               /\ formatted_refs' = formatted_refs
               /\ pc' = "aborted"
          ELSE /\ uncaught' = uncaught
               /\ formatted_refs' = got.val
               /\ pc' = "backend"
    /\ UNCHANGED <<keptVars, options, file_exists, document, calls, debug_log,
                   markerVars, sortVars, wrapVars, formatVars, parseVars>>

\* the latex failure reported, the run ending there without the native layout
EffectLatex_NoFallback ==
    /\ pc = "backend"
    /\ options.backend = "latex"
    /\ calls' = Append(calls, "latex")
    /\ messages' = Append(messages,
           "LaTeX rendering failed: 'BibTeXLoader' object has no attribute 'add_references_latex'")
    /\ debug_log' = debug_log
    /\ pc' = "done"
    /\ UNCHANGED <<keptVars, options, file_exists, document, formatted_refs, uncaught,
                   extension, content, data, fixture, parsed,
                   markerVars, sortVars, wrapVars, formatVars>>

\* lines 88-94: the latex backend.  add_references_latex is not a method of
\* the class (its definition, lines 778-1024, is commented out), so the call
\* raises AttributeError, which the except clause reports
EffectLatex ==
    /\ pc = "backend"
    /\ options.backend = "latex"
    /\ calls' = Append(calls, "latex")
    /\ messages' = Append(messages,
           "LaTeX rendering failed: 'BibTeXLoader' object has no attribute 'add_references_latex'")
    /\ debug_log' = Append(debug_log, "Falling back to Inkscape backend")
    /\ pc' = "fallback"
    /\ UNCHANGED <<keptVars, options, file_exists, document, formatted_refs, uncaught,
                   extension, content, data, fixture, parsed,
                   markerVars, sortVars, wrapVars, formatVars>>

\* lines 95-96: self.add_references_to_document(formatted_refs), in the
\* except clause or for the inkscape backend
EffectNative ==
    /\ \/ pc = "fallback"
       \/ pc = "backend" /\ options.backend # "latex"
    /\ calls' = Append(calls, "native")
    /\ \E id \in UniqueIds(document) :
          document' = Append(document, NewGroup(id, options, formatted_refs))
    /\ pc' = "done"
    /\ UNCHANGED <<keptVars, options, file_exists, formatted_refs, debug_log, uncaught,
                   markerVars, sortVars, wrapVars, formatVars, parseVars>>

NextRun ==
    \/ EffectRemoveExisting
    \/ EffectCheckFile
    \/ EffectParse
    \/ EffectCheckEntries
    \/ EffectSort
    \/ EffectFormat
    \/ EffectLatex
    \/ EffectNative

SpecRun == InitRun /\ [][NextRun]_vars

\* the groups the run added to the drawing
AddedGroups ==
    {i \in DOMAIN document : document[i].id \notin {ArtGroup.id, OldGroup.id}}

LatexFailure ==
    "LaTeX rendering failed: 'BibTeXLoader' object has no attribute 'add_references_latex'"

\* C18: a run that hits an input error (missing file, unsupported extension,
\* a parser failure, zero parsed entries) reports exactly one error message,
\* halts before sort, format and layout, and emits no group.
C18_InputErrorReportedOnce ==
    pc = "halted" =>
        /\ Len(messages) = 1
        /\ sorted_entries = <<>> /\ formatted_refs = <<>> /\ calls = <<>>
        /\ AddedGroups = {}

\* C19: with the latex backend selected, the failure of its rendering is
\* caught and reported, the native layout is then produced exactly once for
\* the same formatted references, the run does not abort and the latex
\* backend is not called again.
C19_LatexFallsBack ==
    options.backend = "latex" =>
        /\ calls # <<>> => pc \in {"fallback", "done"} /\ uncaught = ""
        /\ pc = "fallback" =>
              /\ calls = <<"latex">>
              /\ messages[Len(messages)] = LatexFailure
              /\ AddedGroups = {}
        /\ pc = "done" =>
              /\ calls = <<"latex", "native">>
              /\ Cardinality({i \in DOMAIN messages : messages[i] = LatexFailure}) = 1
              /\ Cardinality(AddedGroups) = 1
              /\ \A i \in AddedGroups :
                    /\ document[i].lines = AllLines(options, formatted_refs)
                    /\ Cardinality({j \in DOMAIN document[i].lines :
                                       ~document[i].lines[j].is_title
                                       /\ document[i].lines[j].is_first})
                          = Len(formatted_refs)

C19_Witness ==
    /\ pc = "done"
    /\ options.backend = "latex"
    /\ calls = <<"latex", "native">>
    /\ Len(formatted_refs) = 2
    /\ messages = <<LatexFailure>>

\* the text the i-th reference is wrapped from
C20_FullText(i) ==
    LET m == get_numbering_marker(options.numbering_style, i) IN
    IF m # "" THEN m \o " " \o formatted_refs[i] ELSE formatted_refs[i]

\* the continuation indent of the i-th reference: from its own marker, or
\* from the marker of the last reference when its own marker is not empty
C20_Indent(rule, i) ==
    LET own == get_numbering_marker(options.numbering_style, i)
        last == get_numbering_marker(options.numbering_style, Len(formatted_refs)) IN
    IF ~options.hanging_indent THEN 0
    ELSE IF rule = "own" THEN Len(own) + 1
    ELSE IF own = "" THEN 0 ELSE Len(last) + 1

\* the lines of the references from the i-th on, wrapped with first-line
\* indent 0 and the continuation indent of the rule
RECURSIVE C20_WrappedFrom(_, _)
C20_WrappedFrom(rule, i) ==
    IF i > Len(formatted_refs) THEN <<>>
    ELSE wrap_text(C20_FullText(i), MaxChars(options), 0, C20_Indent(rule, i))
         \o C20_WrappedFrom(rule, i + 1)

\* the texts of the reference lines of a group
C20_Texts(g) ==
    LET at == {j \in DOMAIN g.lines : ~g.lines[j].is_title}
        first_at == IF at = {} THEN 1 ELSE Min(at) IN
    [j \in 1..Cardinality(at) |-> g.lines[first_at + j - 1].text]

\* C20: the reference at position i is wrapped with first-line indent 0 and,
\* with hanging indent enabled, a continuation indent of the length of its
\* own marker plus one; with hanging indent disabled the continuation
\* indent is 0.
C20_OwnMarkerIndent ==
    pc = "done" =>
        \A i \in AddedGroups : C20_Texts(document[i]) = C20_WrappedFrom("own", 1)

\* C20 (amended): with hanging indent enabled and a non-empty marker, the
\* continuation indent of every reference is the length of the marker of the
\* last reference plus one; it is 0 with hanging indent disabled or an empty
\* marker.
C20_LastMarkerIndent ==
    pc = "done" =>
        \A i \in AddedGroups : C20_Texts(document[i]) = C20_WrappedFrom("last", 1)

C20_Witness ==
    /\ pc = "done"
    /\ options.hanging_indent
    /\ options.numbering_style = "roman"
    /\ Len(formatted_refs) = 2
    /\ \E i \in AddedGroups :
          /\ C20_Texts(document[i]) = C20_WrappedFrom("last", 1)
          /\ C20_Texts(document[i]) # C20_WrappedFrom("own", 1)

\* C23: a run that halts on an input error (missing file, unsupported
\* extension or zero parsed entries) leaves the document exactly as it was
\* before the run, with update_existing enabled as well as disabled: no
\* references group is added and no existing references group is removed.
C23_HaltLeavesDocument ==
    pc = "halted" => document = document_before

====
